---- MODULE Spec2Model ----
(***************************************************************************)
(* Model of the tool registry (backend/app/tools/registry.py), the tool    *)
(* executor (backend/app/tools/executor.py) and the ATS checker            *)
(* (backend/app/agents/ats_checker.py) of ai-career-elevate.               *)
(*                                                                         *)
(* Python strings are sequences of one-character strings; the empty        *)
(* Python string is the empty sequence.  A Python value is a record        *)
(* [kind, val], kind being the value's native type.                        *)
(***************************************************************************)
EXTENDS Integers, Sequences, FiniteSets, TLC

VARIABLES
    valIn, valOut,       \* validate_tool_parameters: its arguments, its return value
    calcIn, calcOut,     \* calc_tool: its argument, its return value and evaluator use
    fileIn, fileOut,     \* read_file_tool / list_files_tool: argument, result, accesses
    inst,                \* executor.py: the global _executor_instance (0 is None)
    pools,               \* the ToolExecutor instances created so far, by identity
    items,               \* the work items (futures) submitted so far
    callers,             \* the calling threads: position and locals of each
    atsSelf,             \* ats_checker.py: the accumulators of one ATSChecker instance
    atsIn, atsOut,       \* the ATS operation in progress: its arguments, its return value
    atsLists,            \* the issue lists of the instance as objects, by identity
    safeIn, safeOut      \* _execute_tool_safely on its own: the tool call, the dict built

valVars  == <<valIn, valOut>>
calcVars == <<calcIn, calcOut>>
fileVars == <<fileIn, fileOut>>
execVars == <<inst, pools, items, callers>>
atsVars  == <<atsSelf, atsIn, atsOut, atsLists>>
safeVars == <<safeIn, safeOut>>
vars     == <<valIn, valOut, calcIn, calcOut, fileIn, fileOut, inst, pools, items, callers,
              atsSelf, atsIn, atsOut, atsLists, safeIn, safeOut>>

(***************************************************************************)
(* Python values                                                           *)
(***************************************************************************)
StrV(s)  == [kind |-> "str",  val |-> s]
IntV     == [kind |-> "int",  val |-> <<"5">>]
BoolV    == [kind |-> "bool", val |-> <<"True">>]
NoneV    == [kind |-> "none", val |-> <<>>]

\* isinstance(value, <the Python type a schema's type tag names>); bool is a
\* subclass of int, so isinstance(True, (int, float)) is true.
IsInstance(value, tag) ==
    CASE tag = "string"  -> value.kind = "str"
      [] tag = "number"  -> value.kind \in {"int", "float", "bool"}
      [] tag = "boolean" -> value.kind = "bool"
      [] OTHER           -> TRUE

(***************************************************************************)
(* registry.py: TOOLS, the parameter schema of each tool                   *)
(***************************************************************************)
TOOLS ==
    [ echo        |-> [properties |-> [text |-> "string"],       required |-> <<"text">>],
      calc        |-> [properties |-> [expression |-> "string"], required |-> <<"expression">>],
      read_file   |-> [properties |-> [filepath |-> "string"],   required |-> <<"filepath">>],
      list_files  |-> [properties |-> [directory |-> "string"],  required |-> <<>>],
      pdf_to_text |-> [properties |-> [filepath |-> "string"],   required |-> <<"filepath">>] ]

ToolNames == DOMAIN TOOLS

\* for param in required: if param not in parameters: return False
RECURSIVE RequiredPresent(_, _, _)
RequiredPresent(required, i, parameters) ==
    IF i > Len(required) THEN TRUE
    ELSE IF required[i] \notin DOMAIN parameters THEN FALSE
    ELSE RequiredPresent(required, i + 1, parameters)

\* the type test of one (param_name, param_value) item of parameters
ParamTypeOk(properties, param_name, param_value) ==
    IF param_name \in DOMAIN properties
    THEN IsInstance(param_value, properties[param_name])
    ELSE TRUE

ValidateNoTypes(tool_name, parameters) ==
    /\ tool_name \in ToolNames
    /\ RequiredPresent(TOOLS[tool_name].required, 1, parameters)

\* a validation that rejects fields the schema does not declare
ValidateRejectsUndeclared(tool_name, parameters) ==
    /\ tool_name \in ToolNames
    /\ RequiredPresent(TOOLS[tool_name].required, 1, parameters)
    /\ \A param_name \in DOMAIN parameters :
           /\ param_name \in DOMAIN TOOLS[tool_name].properties
           /\ IsInstance(parameters[param_name], TOOLS[tool_name].properties[param_name])

validate_tool_parameters(tool_name, parameters) ==
    IF tool_name \notin ToolNames THEN FALSE
    ELSE LET schema == TOOLS[tool_name] IN
         IF ~RequiredPresent(schema.required, 1, parameters) THEN FALSE
         ELSE \A param_name \in DOMAIN parameters :
                  ParamTypeOk(schema.properties, param_name, parameters[param_name])

(***************************************************************************)
(* Specification of validate_tool_parameters over bounded arguments        *)
(***************************************************************************)
MaxParams == 3

FieldNames == {"text", "expression", "filepath", "directory", "extra"}
ParamValues == {StrV(<<"x">>), IntV, BoolV, NoneV}

ParamMaps ==
    UNION { [fs -> ParamValues] : fs \in { s \in SUBSET FieldNames : Cardinality(s) <= MaxParams } }

Pending == [done |-> FALSE, value |-> FALSE]
Returned(v) == [done |-> TRUE, value |-> v]

IdleFile == [tool |-> "none", path |-> NoneV]

InitIdleVal  == valIn = [name |-> "echo", params |-> <<>>] /\ valOut = Pending
InitIdleCalc == calcIn = NoneV /\ calcOut = Pending
InitIdleFile == fileIn = IdleFile /\ fileOut = Pending
InitIdleExec == inst = 0 /\ pools = <<>> /\ items = <<>> /\ callers = <<>>
InitIdleAts  ==
    /\ atsSelf = [issues |-> <<>>, recommended_actions |-> <<>>]
    /\ atsIn = [op |-> "none"]
    /\ atsOut = Pending
    /\ atsLists = <<>>
InitIdleSafe == safeIn = [fn |-> "none"] /\ safeOut = Pending

InitValidate ==
    /\ valIn \in [name : ToolNames \cup {"unknown"}, params : ParamMaps]
    /\ valOut = Pending
    /\ InitIdleCalc /\ InitIdleFile /\ InitIdleExec /\ InitIdleAts /\ InitIdleSafe

Validate ==
    /\ ~valOut.done
    /\ valOut' = Returned(validate_tool_parameters(valIn.name, valIn.params))
    /\ UNCHANGED <<valIn, calcVars, fileVars, execVars, atsVars, safeVars>>

NextValidate == Validate

SpecValidate == InitValidate /\ [][NextValidate]_vars

(***************************************************************************)
(* C5: validate_tool_parameters(tool, params) is true if and only if the   *)
(* tool is registered, every required field of its schema is present in    *)
(* params, and every field of params the schema declares with a type tag   *)
(* holds a value of that type; undeclared fields never affect the result.  *)
(***************************************************************************)
C5_TypeKinds(tag) ==
    CASE tag = "string"  -> {"str"}
      [] tag = "number"  -> {"int", "float", "bool"}   \* the native test: bool is an int
      [] tag = "boolean" -> {"bool"}

C5_Expected(name, params) ==
    /\ name \in ToolNames
    /\ \A i \in 1..Len(TOOLS[name].required) : TOOLS[name].required[i] \in DOMAIN params
    /\ \A f \in DOMAIN params \cap DOMAIN TOOLS[name].properties :
           params[f].kind \in C5_TypeKinds(TOOLS[name].properties[f])

C5_Declared(name, params) ==
    IF name \in ToolNames
    THEN [f \in DOMAIN params \cap DOMAIN TOOLS[name].properties |-> params[f]]
    ELSE <<>>

\* C5: the returned boolean equals the three-part condition and ignores undeclared fields
C5_ValidateIff ==
    valOut.done =>
        /\ valOut.value = C5_Expected(valIn.name, valIn.params)
        /\ valOut.value = C5_Expected(valIn.name, C5_Declared(valIn.name, valIn.params))

\* a call with an undeclared field beside a well-typed required one is accepted
C5_Witness ==
    /\ valOut.done /\ valOut.value
    /\ valIn.name = "echo"
    /\ DOMAIN valIn.params = {"text", "extra"}
    /\ valIn.params["extra"].kind = "int"

(***************************************************************************)
(* Strings                                                                 *)
(***************************************************************************)
UpperToLower ==
    [ A |-> "a", B |-> "b", C |-> "c", D |-> "d", E |-> "e", F |-> "f", G |-> "g",
      H |-> "h", I |-> "i", J |-> "j", K |-> "k", L |-> "l", M |-> "m", N |-> "n",
      O |-> "o", P |-> "p", Q |-> "q", R |-> "r", S |-> "s", T |-> "t", U |-> "u",
      V |-> "v", W |-> "w", X |-> "x", Y |-> "y", Z |-> "z" ]

LowerChar(c) == IF c \in DOMAIN UpperToLower THEN UpperToLower[c] ELSE c

\* str.lower()
Lower(s) == [i \in 1..Len(s) |-> LowerChar(s[i])]

\* pattern in s
Contains(s, pattern) ==
    \E i \in 0..(Len(s) - Len(pattern)) : SubSeq(s, i + 1, i + Len(pattern)) = pattern

\* Flatten a sequence of strings into one string
RECURSIVE Concat(_)
Concat(parts) == IF parts = <<>> THEN <<>> ELSE Head(parts) \o Concat(Tail(parts))

(***************************************************************************)
(* registry.py: calc_tool                                                  *)
(***************************************************************************)
ToolResult(success, output, error) ==
    [success |-> success, output |-> output, error |-> error]

\* declared by calc_tool and used nowhere in it
allowed_chars ==
    {"0", "1", "2", "3", "4", "5", "6", "7", "8", "9", "+", "-", "*", "/", ".", "(", ")", " "}
allowed_functions == { <<"s","q","r","t">>, <<"a","b","s">>, <<"s","i","n">>, <<"c","o","s">>,
                       <<"t","a","n">>, <<"l","o","g">>, <<"e","x","p">>, <<"p","i">>, <<"e">> }

dangerous_patterns ==
    << <<"_","_">>, <<"i","m","p","o","r","t">>, <<"e","x","e","c">>, <<"e","v","a","l">>,
       <<"o","p","e","n">>, <<"f","i","l","e">>, <<"i","n","p","u","t">> >>

\* for pattern in dangerous_patterns: if pattern in <text>: the first such pattern, 0 if none
FirstDangerous(text) ==
    LET hits == { i \in 1..Len(dangerous_patterns) : Contains(text, dangerous_patterns[i]) }
    IN IF hits = {} THEN 0 ELSE CHOOSE i \in hits : \A j \in hits : i <= j

\* What eval(expression, safe_globals, safe_locals) can do: return a value (given here
\* by its formatted text) or raise.
EvalOutcomes ==
    { [exc |-> "none", text |-> <<"2", "0">>],
      [exc |-> "none", text |-> <<>>],
      [exc |-> "ZeroDivisionError", text |-> <<>>],
      [exc |-> "ValueError", text |-> <<"m","a","t","h">>],
      [exc |-> "SyntaxError", text |-> <<"E","O","F">>],
      [exc |-> "Exception", text |-> <<>>] }

CalcEvaluateBareMessage(ev) ==
    IF ev.exc = "none" THEN ToolResult(TRUE, ev.text, <<>>) ELSE ToolResult(FALSE, <<>>, ev.text)

\* lines 94-114: the evaluation, the formatting and the except clauses
CalcEvaluate(ev) ==
    CASE ev.exc = "none"              -> ToolResult(TRUE, ev.text, <<>>)
      [] ev.exc = "ZeroDivisionError" -> ToolResult(FALSE, <<>>, <<"Division by zero">>)
      [] ev.exc = "ValueError"        -> ToolResult(FALSE, <<>>, <<"Invalid value: ">> \o ev.text)
      [] ev.exc = "SyntaxError"       -> ToolResult(FALSE, <<>>, <<"Invalid syntax: ">> \o ev.text)
      [] OTHER                        -> ToolResult(FALSE, <<>>, <<"Calculation error: ">> \o ev.text)

CalcRunCaseSensitive(expression, ev) ==
    IF expression.kind # "str"
    THEN [result |-> ToolResult(FALSE, <<>>, <<"Expression must be a string">>), evaluated |-> FALSE]
    ELSE LET hit == FirstDangerous(expression.val) IN
         IF hit # 0
         THEN [result |-> ToolResult(FALSE, <<>>, <<"Dangerous pattern '">> \o dangerous_patterns[hit]
                                                   \o <<"' detected in expression">>),
               evaluated |-> FALSE]
         ELSE [result |-> CalcEvaluate(ev), evaluated |-> TRUE]

\* calc_tool(expression) when the evaluator, if reached, does ev: the ToolResult returned
\* and whether eval was called
CalcRun(expression, ev) ==
    IF expression.kind # "str"
    THEN [result |-> ToolResult(FALSE, <<>>, <<"Expression must be a string">>), evaluated |-> FALSE]
    ELSE LET hit == FirstDangerous(Lower(expression.val)) IN
         IF hit # 0
         THEN [result |-> ToolResult(FALSE, <<>>, <<"Dangerous pattern '">> \o dangerous_patterns[hit]
                                                   \o <<"' detected in expression">>),
               evaluated |-> FALSE]
         ELSE [result |-> CalcEvaluate(ev), evaluated |-> TRUE]

calc_tool(expression, ev) == CalcRun(expression, ev).result

(***************************************************************************)
(* Specification of calc_tool over bounded expressions                     *)
(***************************************************************************)
MaxFrags == 2

Fragments ==
    { <<"1">>, <<"+">>, <<"(">>, <<")">>, <<" ">>, <<"s","q","r","t">>, <<"p","o","w">>,
      <<"e">>, <<"x">>, <<"[">>, <<"'">>, <<"_">>, <<"_","_">>, <<"i","m">>, <<"p","o","r","t">>,
      <<"I","m","P","o","R","t">>, <<"E","x">>, <<"e","c">>, <<"e","V","a","l">>,
      <<"O","P","E","N">>, <<"f","i","l","e">>, <<"i","n">>, <<"p","u","t">> }

Exprs == UNION { { Concat(fs) : fs \in [1..n -> Fragments] } : n \in 0..MaxFrags }

InitCalc ==
    /\ calcIn \in { StrV(e) : e \in Exprs } \cup {IntV, NoneV}
    /\ calcOut = Pending
    /\ InitIdleVal /\ InitIdleFile /\ InitIdleExec /\ InitIdleAts /\ InitIdleSafe

Calc ==
    /\ ~calcOut.done
    /\ \E ev \in EvalOutcomes :
           calcOut' = [done |-> TRUE, value |-> calc_tool(calcIn, ev),
                       evaluated |-> CalcRun(calcIn, ev).evaluated]
    /\ UNCHANGED <<calcIn, valVars, fileVars, execVars, atsVars, safeVars>>

NextCalc == Calc

SpecCalc == InitCalc /\ [][NextCalc]_vars

(***************************************************************************)
(* C8: calc evaluates an expression only if it is restricted to digits,    *)
(* the characters + - * / . ( ) and space, and names from the fixed        *)
(* allow-list; every other expression is rejected without being evaluated. *)
(***************************************************************************)
C8_AllowedNames ==
    allowed_functions \cup { <<"p","o","w">>, <<"r","o","u","n","d">>, <<"m","i","n">>, <<"m","a","x">> }

C8_IsNameChar(c) == c = "_" \/ LowerChar(c) \in { UpperToLower[u] : u \in DOMAIN UpperToLower }

\* the maximal run of name characters of s around position i
C8_NameAt(s, i) ==
    LET first == CHOOSE j \in 1..i :
                     /\ \A k \in j..i : C8_IsNameChar(s[k])
                     /\ (j = 1 \/ ~C8_IsNameChar(s[j - 1]))
        last  == CHOOSE j \in i..Len(s) :
                     /\ \A k \in i..j : C8_IsNameChar(s[k])
                     /\ (j = Len(s) \/ ~C8_IsNameChar(s[j + 1]))
    IN SubSeq(s, first, last)

C8_Restricted(s) ==
    \A i \in 1..Len(s) :
        \/ s[i] \in allowed_chars
        \/ C8_IsNameChar(s[i]) /\ C8_NameAt(s, i) \in C8_AllowedNames

\* C8: an expression reaches the evaluator only if it is restricted to the allowed characters
\* and names
C8_EvaluatesOnlyRestricted ==
    (calcOut.done /\ calcOut.evaluated) => (calcIn.kind = "str" /\ C8_Restricted(calcIn.val))

(***************************************************************************)
(* C9: every expression string that contains, case-insensitively, one of   *)
(* __, import, exec, eval, open, file, input makes calc return a failure   *)
(* whose error names a dangerous pattern the expression contains, and the  *)
(* expression is never passed to the evaluator.                            *)
(***************************************************************************)
C9_Denylist == { dangerous_patterns[i] : i \in 1..Len(dangerous_patterns) }

C9_ContainsNoCase(s, p) ==
    \E i \in 0..(Len(s) - Len(p)) : \A k \in 1..Len(p) : LowerChar(s[i + k]) = p[k]

\* C9: an expression containing a denylisted substring in any case fails with the dangerous
\* pattern error and is not evaluated
C9_DenylistRejects ==
    (calcOut.done /\ calcIn.kind = "str"
        /\ \E p \in C9_Denylist : C9_ContainsNoCase(calcIn.val, p))
    => /\ ~calcOut.evaluated
       /\ ~calcOut.value.success
       /\ \E p \in C9_Denylist :
              /\ C9_ContainsNoCase(calcIn.val, p)
              /\ calcOut.value.error = <<"Dangerous pattern '">> \o p \o <<"' detected in expression">>

\* a pattern in mixed case, spelled across two fragments, is rejected
C9_Witness ==
    /\ calcOut.done /\ ~calcOut.evaluated
    /\ calcIn = StrV(<<"E","x","e","c">>)
    /\ calcOut.value.error = <<"Dangerous pattern '", "e","x","e","c", "' detected in expression">>

(***************************************************************************)
(* The file system the file tools run against: the working directory /w    *)
(* holds a file f, a file b larger than 1 MiB, a directory d holding a     *)
(* file f, and a symbolic link s to the directory /o outside it.           *)
(***************************************************************************)
Dir           == [type |-> "dir",  content |-> <<>>, big |-> FALSE, target |-> <<>>]
File(c, big)  == [type |-> "file", content |-> c,    big |-> big,   target |-> <<>>]
Link(t)       == [type |-> "link", content |-> <<>>, big |-> FALSE, target |-> t]

Cwd == << <<"w">> >>

FSNodes ==
    { <<<<>>, Dir>>,
      <<Cwd, Dir>>,
      <<Cwd \o << <<"f">> >>, File(<<"h","i">>, FALSE)>>,
      <<Cwd \o << <<"b">> >>, File(<<"b","i","g">>, TRUE)>>,
      <<Cwd \o << <<"d">> >>, Dir>>,
      <<Cwd \o << <<"d">>, <<"f">> >>, File(<<>>, FALSE)>>,
      <<Cwd \o << <<"s">> >>, Link(<< <<"o">> >>)>>,
      << << <<"o">> >>, Dir>>,
      << << <<"o">>, <<"f">> >>, File(<<"k","e","y">>, FALSE)>> }

FSPaths == { n[1] : n \in FSNodes }
FS == [path \in FSPaths |-> (CHOOSE n \in FSNodes : n[1] = path)[2]]

\* os.path.isabs
IsAbs(s) == Len(s) > 0 /\ s[1] = "/"

\* the components of a path string between its "/" separators
RECURSIVE SplitSlash(_, _)
SplitSlash(s, cur) ==
    IF s = <<>> THEN <<cur>>
    ELSE IF Head(s) = "/" THEN <<cur>> \o SplitSlash(Tail(s), <<>>)
    ELSE SplitSlash(Tail(s), Append(cur, Head(s)))

\* Path(s).parts of a relative path: empty and "." components are dropped
PathParts(s) == SelectSeq(SplitSlash(s, <<>>), LAMBDA c : c # <<>> /\ c # <<".">>)

Parent(path) == IF path = <<>> THEN <<>> ELSE SubSeq(path, 1, Len(path) - 1)

\* Path.resolve(): ".." steps and symbolic links are followed, missing tails are kept
RECURSIVE ResolveFrom(_, _)
ResolveFrom(cur, parts) ==
    IF parts = <<>> THEN cur
    ELSE LET c == Head(parts)
             nxt == Append(cur, c)
         IN IF c = <<".", ".">> THEN ResolveFrom(Parent(cur), Tail(parts))
            ELSE IF nxt \in FSPaths /\ FS[nxt].type = "link"
                 THEN ResolveFrom(FS[nxt].target, Tail(parts))
                 ELSE ResolveFrom(nxt, Tail(parts))

Resolve(s) == ResolveFrom(IF IsAbs(s) THEN <<>> ELSE Cwd, PathParts(s))

\* path.relative_to(current_dir) does not raise ValueError
IsUnder(path, dir) == Len(path) >= Len(dir) /\ SubSeq(path, 1, Len(dir)) = dir

Access(op, path) == [op |-> op, path |-> path]
Ran(result, trace) == [result |-> result, trace |-> trace]

\* what the operating system does with open() / iterdir()
IOOutcomes == {"ok", "PermissionError", "OSError"}

PathGuardNoContainment(s, outsideError) ==
    IF Contains(s, <<".", ".">>) \/ IsAbs(s)
    THEN Ran(ToolResult(FALSE, <<>>, <<"Path traversal not allowed. Use relative paths only.">>), <<>>)
    ELSE Ran(ToolResult(TRUE, <<>>, <<>>), <<Access("resolve", Resolve(s))>>)

\* lines 127-148 and 235-256: the security checks; success means the checks passed
PathGuard(s, outsideError) ==
    IF Contains(s, <<".", ".">>) \/ IsAbs(s)
    THEN Ran(ToolResult(FALSE, <<>>, <<"Path traversal not allowed. Use relative paths only.">>), <<>>)
    ELSE IF ~IsUnder(Resolve(s), Cwd)
         THEN Ran(ToolResult(FALSE, <<>>, <<outsideError>>), <<Access("resolve", Resolve(s))>>)
         ELSE Ran(ToolResult(TRUE, <<>>, <<>>), <<Access("resolve", Resolve(s))>>)

\* read_file_tool(filepath): the ToolResult and the file-system accesses made, in order
ReadFileRun(filepath, io) ==
    IF filepath.kind # "str"
    THEN Ran(ToolResult(FALSE, <<>>, <<"Filepath must be a string">>), <<>>)
    ELSE LET guard == PathGuard(filepath.val, "File must be in current directory or subdirectories")
             path  == Resolve(filepath.val)
             t1    == guard.trace \o <<Access("exists", path)>>
             t2    == t1 \o <<Access("is_file", path)>>
             t3    == t2 \o <<Access("stat", path)>>
             t4    == t3 \o <<Access("open", path)>>
         IN IF ~guard.result.success THEN guard
            ELSE IF path \notin FSPaths THEN Ran(ToolResult(FALSE, <<>>, <<"File not found">>), t1)
            ELSE IF FS[path].type # "file" THEN Ran(ToolResult(FALSE, <<>>, <<"Path is not a file">>), t2)
            ELSE IF FS[path].big THEN Ran(ToolResult(FALSE, <<>>, <<"File too large (max 1MB)">>), t3)
            ELSE CASE io = "ok" -> Ran(ToolResult(TRUE, FS[path].content, <<>>), t4)
                   [] io = "PermissionError" -> Ran(ToolResult(FALSE, <<>>, <<"Permission denied">>), t4)
                   [] OTHER -> Ran(ToolResult(FALSE, <<>>, <<"File read error: ", "OSError">>), t4)

read_file_tool(filepath, io) == ReadFileRun(filepath, io).result

\* the entries directly inside a directory
Children(path) == { q \in FSPaths : Len(q) = Len(path) + 1 /\ Parent(q) = path }

\* item.is_file() / item.is_dir() follow a symbolic link to its target's type
ItemType(q) == IF FS[q].type = "link"
               THEN (IF FS[q].target \in FSPaths THEN FS[FS[q].target].type ELSE "missing")
               ELSE FS[q].type

ItemLabel(q) == (IF ItemType(q) = "file" THEN <<"FILE: ">> ELSE <<"DIR:  ">>) \o q[Len(q)]

\* the order of str on the labels: "DIR:  " sorts before "FILE: ", then by name
NameChars == <<".", "/", "b", "d", "f", "o", "s", "w">>
CharRank(c) == CHOOSE i \in 1..Len(NameChars) : NameChars[i] = c
RECURSIVE StrLess(_, _)
StrLess(a, b) ==
    IF b = <<>> THEN FALSE
    ELSE IF a = <<>> THEN TRUE
    ELSE IF Head(a) = Head(b) THEN StrLess(Tail(a), Tail(b))
    ELSE CharRank(Head(a)) < CharRank(Head(b))
LabelLess(a, b) ==
    IF a[1] # b[1] THEN a[1] = "DIR:  " ELSE StrLess(Tail(a), Tail(b))

RECURSIVE SortedLabels(_)
SortedLabels(labels) ==
    IF labels = {} THEN <<>>
    ELSE LET least == CHOOSE l \in labels : \A m \in labels \ {l} : LabelLess(l, m)
         IN <<least>> \o SortedLabels(labels \ {least})

\* "\n".join(items)
RECURSIVE JoinLines(_)
JoinLines(lines) ==
    IF lines = <<>> THEN <<>>
    ELSE IF Len(lines) = 1 THEN Head(lines)
    ELSE Head(lines) \o <<"\n">> \o JoinLines(Tail(lines))

\* list_files_tool(directory): the ToolResult and the file-system accesses made, in order
ListFilesRun(directory, io) ==
    IF directory.kind # "str"
    THEN Ran(ToolResult(FALSE, <<>>, <<"Directory must be a string">>), <<>>)
    ELSE LET guard == PathGuard(directory.val, "Directory must be in current directory or subdirectories")
             path  == Resolve(directory.val)
             t1    == guard.trace \o <<Access("exists", path)>>
             t2    == t1 \o <<Access("is_dir", path)>>
             t3    == t2 \o <<Access("iterdir", path)>>
             listed == SortedLabels({ ItemLabel(q) : q \in { c \in Children(path) : ItemType(c) \in {"file", "dir"} } })
         IN IF ~guard.result.success THEN guard
            ELSE IF path \notin FSPaths THEN Ran(ToolResult(FALSE, <<>>, <<"Directory not found">>), t1)
            ELSE IF FS[path].type # "dir" THEN Ran(ToolResult(FALSE, <<>>, <<"Path is not a directory">>), t2)
            ELSE CASE io = "ok" ->
                        Ran(ToolResult(TRUE, IF listed = <<>> THEN <<"Directory is empty">> ELSE JoinLines(listed), <<>>), t3)
                   [] io = "PermissionError" -> Ran(ToolResult(FALSE, <<>>, <<"Permission denied">>), t3)
                   [] OTHER -> Ran(ToolResult(FALSE, <<>>, <<"Directory listing error: ", "OSError">>), t3)

list_files_tool(directory, io) == ListFilesRun(directory, io).result

(***************************************************************************)
(* Specification of read_file_tool and list_files_tool over bounded paths  *)
(***************************************************************************)
MaxPathLen == 4

PathChars == {"/", ".", "f", "d", "s", "b"}
PathStrings == UNION { [1..n -> PathChars] : n \in 0..MaxPathLen }

InitFiles ==
    /\ fileIn \in [tool : {"read_file", "list_files"}, path : { StrV(q) : q \in PathStrings } \cup {NoneV}]
    /\ fileOut = Pending
    /\ InitIdleVal /\ InitIdleCalc /\ InitIdleExec /\ InitIdleAts /\ InitIdleSafe

ReadFile ==
    /\ ~fileOut.done /\ fileIn.tool = "read_file"
    /\ \E io \in IOOutcomes :
           fileOut' = [done |-> TRUE, value |-> read_file_tool(fileIn.path, io),
                       trace |-> ReadFileRun(fileIn.path, io).trace]
    /\ UNCHANGED <<fileIn, valVars, calcVars, execVars, atsVars, safeVars>>

ListFiles ==
    /\ ~fileOut.done /\ fileIn.tool = "list_files"
    /\ \E io \in IOOutcomes :
           fileOut' = [done |-> TRUE, value |-> list_files_tool(fileIn.path, io),
                       trace |-> ListFilesRun(fileIn.path, io).trace]
    /\ UNCHANGED <<fileIn, valVars, calcVars, execVars, atsVars, safeVars>>

NextFiles == ReadFile \/ ListFiles

SpecFiles == InitFiles /\ [][NextFiles]_vars

(***************************************************************************)
(* C7: read_file and list_files never read or list anything outside the    *)
(* working directory: an absolute path or a path containing ".." is        *)
(* rejected with the path-traversal error before any file-system access,   *)
(* and a relative path that resolves outside the working directory is      *)
(* rejected before the existence, type and size checks and before anything *)
(* is read or listed.                                                      *)
(***************************************************************************)
C7_Traversal == <<"Path traversal not allowed. Use relative paths only.">>

C7_HasDotDot(s) == \E i \in 1..(Len(s) - 1) : s[i] = "." /\ s[i + 1] = "."

C7_Checks == {"exists", "is_file", "is_dir", "stat", "open", "iterdir"}

C7_OpsOf(trace) == { trace[i].op : i \in 1..Len(trace) }

\* C7: traversal inputs are refused with no file-system access, and every access made is on a
\* path under the working directory
C7_Contained ==
    (fileOut.done /\ fileIn.path.kind = "str") =>
        LET s == fileIn.path.val IN
        /\ (C7_HasDotDot(s) \/ (s # <<>> /\ s[1] = "/"))
              => /\ fileOut.value = ToolResult(FALSE, <<>>, C7_Traversal)
                 /\ fileOut.trace = <<>>
        /\ ~IsUnder(Resolve(s), Cwd)
              => /\ ~fileOut.value.success
                 /\ fileOut.value.output = <<>>
                 /\ C7_OpsOf(fileOut.trace) \cap C7_Checks = {}
        /\ \A i \in 1..Len(fileOut.trace) :
               fileOut.trace[i].op \in C7_Checks => IsUnder(fileOut.trace[i].path, Cwd)

\* the path s/f names, through the link s, the file /o/f outside the working
\* directory: it is rejected after resolution alone
C7_Witness ==
    /\ fileOut.done
    /\ fileIn = [tool |-> "read_file", path |-> StrV(<<"s", "/", "f">>)]
    /\ fileOut.value.error = <<"File must be in current directory or subdirectories">>
    /\ C7_OpsOf(fileOut.trace) = {"resolve"}

(***************************************************************************)
(* registry.py: echo_tool, pdf_to_text_tool, and the call of a tool's      *)
(* function with keyword arguments                                         *)
(***************************************************************************)
\* str(text).replace('\x00', '')
StripNul(text) == SelectSeq(text, LAMBDA c : c # "\\x00")

echo_tool(text) ==
    IF text.kind # "str"
    THEN ToolResult(FALSE, <<>>, <<"Input must be a string">>)
    ELSE ToolResult(TRUE, StripNul(text.val), <<>>)

\* what the PDF extraction collaborator hands back to pdf_to_text_tool
PdfOutcomes == {"text", "no_text_error", "no_text", "raise"}

pdf_to_text_tool(filepath, co) ==
    IF co = "raise" THEN ToolResult(FALSE, <<>>, <<"PDF extraction failed: ", "error">>)
    ELSE IF filepath.kind # "str" THEN ToolResult(FALSE, <<>>, <<"Filepath must be a string">>)
    ELSE CASE co = "text"          -> ToolResult(TRUE, <<"Method: ", "pdfminer", "\nConfidence: ", "high", "\nText:\n", "t">>, <<>>)
           [] co = "no_text_error" -> ToolResult(FALSE, <<>>, <<"File not found">>)
           [] OTHER                -> ToolResult(FALSE, <<>>, <<"No text extracted from PDF">>)

\* the parameters of each tool function, and those without a default
Signature ==
    [ echo        |-> [params |-> {"text"},       needed |-> {"text"}],
      calc        |-> [params |-> {"expression"}, needed |-> {"expression"}],
      read_file   |-> [params |-> {"filepath"},   needed |-> {"filepath"}],
      list_files  |-> [params |-> {"directory"},  needed |-> {}],
      pdf_to_text |-> [params |-> {"filepath"},   needed |-> {"filepath"}] ]

Return(result) == [kind |-> "return", result |-> result]
Raise(msg)     == [kind |-> "raise",  result |-> ToolResult(FALSE, <<>>, msg)]

\* tool_function(**args): every outcome the call can have
ToolFunction(name, args) ==
    IF ~(DOMAIN args \subseteq Signature[name].params /\ Signature[name].needed \subseteq DOMAIN args)
    THEN { Raise(<<"TypeError">>) }
    ELSE CASE name = "echo"       -> { Return(echo_tool(args["text"])) }
           [] name = "calc"       -> { Return(calc_tool(args["expression"], ev)) : ev \in EvalOutcomes }
           [] name = "read_file"  -> { Return(read_file_tool(args["filepath"], io)) : io \in IOOutcomes }
           [] name = "list_files" ->
                  { Return(list_files_tool(IF "directory" \in DOMAIN args THEN args["directory"]
                                           ELSE StrV(<<".">>), io)) : io \in IOOutcomes }
           [] OTHER               -> { Return(pdf_to_text_tool(args["filepath"], co)) : co \in PdfOutcomes }

(***************************************************************************)
(* executor.py: ToolExecutor                                               *)
(***************************************************************************)
DefaultWorkers == 4

ExecuteSafelyLosingMessage(outcome) ==
    IF outcome.kind = "raise"
    THEN ToolResult(FALSE, <<>>, <<"Tool execution failed: ">>)
    ELSE IF DOMAIN outcome.result # {"success", "output", "error"}
         THEN ToolResult(FALSE, <<>>, <<"Tool function did not return a ToolResult">>)
         ELSE outcome.result

\* ToolExecutor._execute_tool_safely, given what tool_function(**args) did
execute_tool_safely(outcome) ==
    IF outcome.kind = "raise"
    THEN ToolResult(FALSE, <<>>, <<"Tool execution failed: ">> \o outcome.result.error)
    ELSE IF DOMAIN outcome.result # {"success", "output", "error"}
         THEN ToolResult(FALSE, <<>>, <<"Tool function did not return a ToolResult">>)
         ELSE outcome.result

AsDictLosingError(result) == [success |-> result.success, output |-> result.output, error |-> <<>>]

\* the dict run_tool builds from a ToolResult
AsDict(result) == [success |-> result.success, output |-> result.output, error |-> result.error]

Failure(error) == [success |-> FALSE, output |-> <<>>, error |-> error]

NotFoundResult(name) == Failure(<<"Tool '", name, "' not found in registry">>)
InvalidResult(name)  == Failure(<<"Invalid parameters for tool '", name, "'">>)
TimeoutResultDefault(name, timeout) ==
    Failure(<<"Tool '", name, "' execution timed out after ", ToString(6), " seconds">>)
TimeoutResult(name, timeout) ==
    Failure(<<"Tool '", name, "' execution timed out after ", ToString(timeout), " seconds">>)
ErrorResult(msg)     == Failure(<<"Tool execution error: ", msg>>)

NoResult == ToolResult(FALSE, <<>>, <<>>)

NewPool == [shut |-> FALSE, max_workers |-> DefaultWorkers]
NewItem(pool, name, args) ==
    [pool |-> pool, name |-> name, args |-> args, st |-> "pending", result |-> NoResult]

\* a work item whose future no caller holds any more
Dropped(item) == [item EXCEPT !.name = "none", !.args = <<>>, !.result = NoResult]

Idle(ref) ==
    [pc |-> "idle", op |-> "none", name |-> "none", args |-> <<>>, timeout |-> 0,
     ex |-> 0, ref |-> ref, item |-> 0, elapsed |-> 0, ret |-> NoResult]

(***************************************************************************)
(* The calls made of the executor                                          *)
(***************************************************************************)
MaxPools   == 2
MaxItems   == 2
MaxTimeout == 1

Timeouts == 0..MaxTimeout

Calls ==
    { [name |-> "nope",       args |-> <<>>],
      [name |-> "echo",       args |-> [text |-> StrV(<<"h", "\\x00", "i">>)]],
      [name |-> "echo",       args |-> <<>>],
      [name |-> "echo",       args |-> [text |-> IntV]],
      [name |-> "echo",       args |-> [text |-> StrV(<<>>), extra |-> IntV]],
      [name |-> "calc",       args |-> [expression |-> StrV(<<"1", "/", "0">>)]],
      [name |-> "calc",       args |-> [expression |-> StrV(<<"_", "_">>)]],
      [name |-> "read_file",  args |-> [filepath |-> StrV(<<"f">>)]],
      [name |-> "read_file",  args |-> [filepath |-> StrV(<<"s", "/", "f">>)]],
      [name |-> "list_files", args |-> <<>>],
      [name |-> "list_files", args |-> [directory |-> StrV(<<".", ".">>)]] }

Threads == DOMAIN callers

Set(c, fields) == callers' = [callers EXCEPT ![c] = fields]

\* the executor touches none of the pure functions' call records
Frame == UNCHANGED <<valVars, calcVars, fileVars, atsVars, safeVars>>

\* --- get_executor() -----------------------------------------------------
CallGetExecutor(c) ==
    /\ callers[c].pc = "idle"
    /\ Set(c, [callers[c] EXCEPT !.pc = "ge_check", !.op = "get_executor"])
    /\ UNCHANGED <<inst, pools, items>>
    /\ Frame

\* run_tool(name, args, timeout) of the module: executor = get_executor()
CallRunTool(c) ==
    /\ callers[c].pc = "idle"
    /\ \E call \in Calls, timeout \in Timeouts :
           Set(c, [callers[c] EXCEPT !.pc = "ge_check", !.op = "run_tool",
                                     !.name = call.name, !.args = call.args, !.timeout = timeout])
    /\ UNCHANGED <<inst, pools, items>>
    /\ Frame

\* if _executor_instance is None
GeCheck(c) ==
    /\ callers[c].pc = "ge_check"
    /\ Set(c, [callers[c] EXCEPT !.pc = IF inst = 0 THEN "ge_new" ELSE "ge_ret"])
    /\ UNCHANGED <<inst, pools, items>>
    /\ Frame

\* _executor_instance = ToolExecutor()
GeNew(c) ==
    /\ callers[c].pc = "ge_new"
    /\ Len(pools) < MaxPools
    /\ pools' = Append(pools, NewPool)
    /\ inst' = Len(pools) + 1
    /\ Set(c, [callers[c] EXCEPT !.pc = "ge_ret"])
    /\ UNCHANGED items
    /\ Frame

\* return _executor_instance; in run_tool, executor.run_tool(...) on what was returned
GeRet(c) ==
    /\ callers[c].pc = "ge_ret"
    /\ IF callers[c].op = "get_executor"
       THEN Set(c, Idle(inst))
       ELSE IF inst = 0
            THEN Set(c, [callers[c] EXCEPT !.pc = "raised"])
            ELSE Set(c, [callers[c] EXCEPT !.pc = "run", !.ex = inst])
    /\ UNCHANGED <<inst, pools, items>>
    /\ Frame

\* executor.run_tool(name, args, timeout) on an instance obtained earlier
CallMethod(c) ==
    /\ callers[c].pc = "idle"
    /\ callers[c].ref # 0
    /\ \E call \in Calls, timeout \in Timeouts :
           Set(c, [callers[c] EXCEPT !.pc = "run", !.op = "method", !.ex = callers[c].ref,
                                     !.name = call.name, !.args = call.args, !.timeout = timeout])
    /\ UNCHANGED <<inst, pools, items>>
    /\ Frame

\* --- ToolExecutor.run_tool ----------------------------------------------
PoolItems(p) == { i \in 1..Len(items) : items[i].pool = p }

\* lines 56-78: the registry check, the parameter check and the submit; submit raises
\* RuntimeError on a pool that was shut down, which the outer except turns into a result
RunChecksValidateFirst(c) ==
    LET me == callers[c] IN
    IF ~validate_tool_parameters(me.name, me.args)
    THEN Set(c, [me EXCEPT !.pc = "returned", !.ret = InvalidResult(me.name)]) /\ UNCHANGED items
    ELSE /\ Len(items) < MaxItems
         /\ items' = Append(items, NewItem(me.ex, me.name, me.args))
         /\ Set(c, [me EXCEPT !.pc = "waiting", !.item = Len(items) + 1, !.elapsed = 0])

RunChecksUnguarded(c) ==
    LET me == callers[c] IN
    IF me.name \notin ToolNames
    THEN Set(c, [me EXCEPT !.pc = "returned", !.ret = NotFoundResult(me.name)]) /\ UNCHANGED items
    ELSE IF ~validate_tool_parameters(me.name, me.args)
    THEN Set(c, [me EXCEPT !.pc = "returned", !.ret = InvalidResult(me.name)]) /\ UNCHANGED items
    ELSE IF pools[me.ex].shut
    THEN Set(c, [me EXCEPT !.pc = "raised"]) /\ UNCHANGED items
    ELSE /\ Len(items) < MaxItems
         /\ items' = Append(items, NewItem(me.ex, me.name, me.args))
         /\ Set(c, [me EXCEPT !.pc = "waiting", !.item = Len(items) + 1, !.elapsed = 0])

\* a run_tool whose pool accepts work after shutdown
RunChecksOnShutPool(c) ==
    LET me == callers[c] IN
    IF me.name \notin ToolNames
    THEN Set(c, [me EXCEPT !.pc = "returned", !.ret = NotFoundResult(me.name)]) /\ UNCHANGED items
    ELSE IF ~validate_tool_parameters(me.name, me.args)
    THEN Set(c, [me EXCEPT !.pc = "returned", !.ret = InvalidResult(me.name)]) /\ UNCHANGED items
    ELSE /\ Len(items) < MaxItems
         /\ items' = Append(items, NewItem(me.ex, me.name, me.args))
         /\ Set(c, [me EXCEPT !.pc = "waiting", !.item = Len(items) + 1, !.elapsed = 0])

RunChecksBody(c) ==
    LET me == callers[c] IN
    IF me.name \notin ToolNames
    THEN Set(c, [me EXCEPT !.pc = "returned", !.ret = NotFoundResult(me.name)]) /\ UNCHANGED items
    ELSE IF ~validate_tool_parameters(me.name, me.args)
    THEN Set(c, [me EXCEPT !.pc = "returned", !.ret = InvalidResult(me.name)]) /\ UNCHANGED items
    ELSE IF pools[me.ex].shut
    THEN Set(c, [me EXCEPT !.pc = "returned",
                           !.ret = ErrorResult("cannot schedule new futures after shutdown")])
         /\ UNCHANGED items
    ELSE /\ Len(items) < MaxItems
         /\ items' = Append(items, NewItem(me.ex, me.name, me.args))
         /\ Set(c, [me EXCEPT !.pc = "waiting", !.item = Len(items) + 1, !.elapsed = 0])

RunChecks(c) ==
    /\ callers[c].pc = "run"
    /\ RunChecksBody(c)
    /\ UNCHANGED <<inst, pools>>
    /\ Frame

\* future.result(timeout=timeout) returns the worker's ToolResult (lines 81-86)
ReturnResult(c) ==
    /\ callers[c].pc = "waiting"
    /\ items[callers[c].item].st = "finished"
    /\ Set(c, [callers[c] EXCEPT !.pc = "returned", !.ret = AsDict(items[callers[c].item].result)])
    /\ UNCHANGED <<inst, pools, items>>
    /\ Frame

CancelInterrupts(i) == [items EXCEPT ![i].st = "cancelled"]

\* a cancel that leaves the future queued
CancelLeavesQueued(i) == items

\* future.cancel(): only a future that has not started is cancelled
Cancel(i) == [items EXCEPT ![i].st = IF items[i].st = "pending" THEN "cancelled" ELSE items[i].st]

\* future.result raises TimeoutError at the deadline (lines 88-95)
Timeout(c) ==
    /\ callers[c].pc = "waiting"
    /\ items[callers[c].item].st # "finished"
    /\ callers[c].elapsed >= callers[c].timeout
    /\ items' = Cancel(callers[c].item)
    /\ Set(c, [callers[c] EXCEPT !.pc = "returned",
                                 !.ret = TimeoutResult(callers[c].name, callers[c].timeout)])
    /\ UNCHANGED <<inst, pools>>
    /\ Frame

\* one second passes for every caller blocked in future.result
Tick ==
    /\ \E c \in Threads : callers[c].pc = "waiting"
    /\ \A c \in Threads :
           callers[c].pc = "waiting" =>
               /\ callers[c].elapsed < callers[c].timeout
               /\ items[callers[c].item].st # "finished"
    /\ callers' = [c \in Threads |->
                      IF callers[c].pc = "waiting"
                      THEN [callers[c] EXCEPT !.elapsed = @ + 1]
                      ELSE callers[c]]
    /\ UNCHANGED <<inst, pools, items>>
    /\ Frame

\* the caller takes the returned dict (or the exception) and goes on; the future it
\* waited on is dropped, and with it the call's name, arguments and result
Done(c) ==
    /\ callers[c].pc \in {"returned", "raised"}
    /\ Set(c, Idle(callers[c].ref))
    /\ items' = IF callers[c].item = 0 THEN items
                ELSE [items EXCEPT ![callers[c].item] = Dropped(@)]
    /\ UNCHANGED <<inst, pools>>
    /\ Frame

\* --- the worker threads of a pool -----------------------------------------
\* a free worker takes the oldest queued work item of its pool
Start(i) ==
    /\ items[i].st = "pending"
    /\ \A j \in PoolItems(items[i].pool) : j < i => items[j].st # "pending"
    /\ Cardinality({ j \in PoolItems(items[i].pool) : items[j].st = "running" })
           < pools[items[i].pool].max_workers
    /\ items' = [items EXCEPT ![i].st = "running"]
    /\ UNCHANGED <<inst, pools, callers>>
    /\ Frame

\* _execute_tool_safely returns on the worker; the future is set (a dropped future's
\* result is seen by nobody)
Finish(i) ==
    /\ items[i].st = "running"
    /\ IF items[i].name = "none"
       THEN items' = [items EXCEPT ![i].st = "finished"]
       ELSE \E outcome \in ToolFunction(items[i].name, items[i].args) :
                items' = [items EXCEPT ![i].st = "finished", ![i].result = execute_tool_safely(outcome)]
    /\ UNCHANGED <<inst, pools, callers>>
    /\ Frame

\* --- shutdown_executor() and ToolExecutor.shutdown() ------------------------
CallShutdownExecutor(c) ==
    /\ callers[c].pc = "idle"
    /\ Set(c, [callers[c] EXCEPT !.pc = "sd_check", !.op = "shutdown_executor"])
    /\ UNCHANGED <<inst, pools, items>>
    /\ Frame

\* if _executor_instance is not None
SdCheck(c) ==
    /\ callers[c].pc = "sd_check"
    /\ Set(c, IF inst = 0 THEN Idle(callers[c].ref) ELSE [callers[c] EXCEPT !.pc = "sd_call"])
    /\ UNCHANGED <<inst, pools, items>>
    /\ Frame

\* _executor_instance.shutdown(): the pool stops taking work
SdCall(c) ==
    /\ callers[c].pc = "sd_call"
    /\ IF inst = 0
       THEN Set(c, [callers[c] EXCEPT !.pc = "raised"]) /\ UNCHANGED pools
       ELSE /\ pools' = [pools EXCEPT ![inst].shut = TRUE]
            /\ Set(c, [callers[c] EXCEPT !.pc = "sd_wait", !.ex = inst])
    /\ UNCHANGED <<inst, items>>
    /\ Frame

\* executor.shutdown() on an instance obtained earlier
CallShutdown(c) ==
    /\ callers[c].pc = "idle"
    /\ callers[c].ref # 0
    /\ pools' = [pools EXCEPT ![callers[c].ref].shut = TRUE]
    /\ Set(c, [callers[c] EXCEPT !.pc = "sd_wait", !.op = "shutdown", !.ex = callers[c].ref])
    /\ UNCHANGED <<inst, items>>
    /\ Frame

\* a shutdown that does not wait for the workers (wait=False)
SdWaitNoWait(c) ==
    /\ callers[c].pc = "sd_wait"
    /\ Set(c, IF callers[c].op = "shutdown_executor"
              THEN [callers[c] EXCEPT !.pc = "sd_clear"]
              ELSE Idle(callers[c].ref))
    /\ UNCHANGED <<inst, pools, items>>
    /\ Frame

\* shutdown(wait=True) returns once the workers have run every queued item
SdWait(c) ==
    /\ callers[c].pc = "sd_wait"
    /\ \A i \in PoolItems(callers[c].ex) : items[i].st \in {"finished", "cancelled"}
    /\ Set(c, IF callers[c].op = "shutdown_executor"
              THEN [callers[c] EXCEPT !.pc = "sd_clear"]
              ELSE Idle(callers[c].ref))
    /\ UNCHANGED <<inst, pools, items>>
    /\ Frame

SdClearKeepsInstance(c) ==
    /\ Frame
    /\ callers[c].pc = "sd_clear"
    /\ Set(c, Idle(callers[c].ref))
    /\ UNCHANGED <<inst, pools, items>>

\* _executor_instance = None
SdClear(c) ==
    /\ callers[c].pc = "sd_clear"
    /\ inst' = 0
    /\ Set(c, Idle(callers[c].ref))
    /\ UNCHANGED <<pools, items>>
    /\ Frame

(***************************************************************************)
(* Spec: one calling thread uses the module's functions and the methods of *)
(* the instances it obtained, beside the pools' worker threads.            *)
(* SpecGlobal: the calling thread uses only get_executor, run_tool and     *)
(* shutdown_executor.                                                      *)
(***************************************************************************)
InitExec(threads) ==
    /\ inst = 0
    /\ pools = <<>>
    /\ items = <<>>
    /\ callers = [c \in threads |-> Idle(0)]
    /\ InitIdleVal /\ InitIdleCalc /\ InitIdleFile /\ InitIdleAts /\ InitIdleSafe

Init == InitExec({"t1"})

NextGlobal ==
    \/ \E c \in Threads : CallGetExecutor(c)
    \/ \E c \in Threads : CallRunTool(c)
    \/ \E c \in Threads : GeCheck(c)
    \/ \E c \in Threads : GeNew(c)
    \/ \E c \in Threads : GeRet(c)
    \/ \E c \in Threads : RunChecks(c)
    \/ \E c \in Threads : ReturnResult(c)
    \/ \E c \in Threads : Timeout(c)
    \/ \E c \in Threads : Done(c)
    \/ Tick
    \/ \E i \in 1..Len(items) : Start(i)
    \/ \E i \in 1..Len(items) : Finish(i)
    \/ \E c \in Threads : CallShutdownExecutor(c)
    \/ \E c \in Threads : SdCheck(c)
    \/ \E c \in Threads : SdCall(c)
    \/ \E c \in Threads : SdWait(c)
    \/ \E c \in Threads : SdClear(c)

Next ==
    \/ NextGlobal
    \/ \E c \in Threads : CallMethod(c)
    \/ \E c \in Threads : CallShutdown(c)

Spec == Init /\ [][Next]_vars

SpecGlobal == Init /\ [][NextGlobal]_vars

(***************************************************************************)
(* C1: for a registered tool and valid args, if the implementation has not *)
(* completed when `timeout` seconds have elapsed after submission,         *)
(* run_tool returns {success: false, output: "", error "... timed out      *)
(* after <timeout> seconds"} with the configured timeout, at the deadline  *)
(* and without waiting for the implementation to finish.                   *)
(***************************************************************************)
C1_TimedOut(name, timeout) ==
    [success |-> FALSE, output |-> <<>>,
     error |-> <<"Tool '", name, "' execution timed out after ", ToString(timeout), " seconds">>]

C1_ReturnsUnfinished(c) ==
    /\ callers[c].pc = "waiting"
    /\ callers'[c].pc = "returned"
    /\ items[callers[c].item].st # "finished"

\* C1: a call that returns while its work item is unfinished returns the timeout failure
\* naming its own timeout, exactly when the timeout has elapsed, and the item stays unfinished
C1_TimeoutAtDeadline ==
    /\ [][\A c \in Threads :
             C1_ReturnsUnfinished(c) =>
                 /\ callers'[c].ret = C1_TimedOut(callers[c].name, callers[c].timeout)
                 /\ callers[c].elapsed = callers[c].timeout
                 /\ items'[callers[c].item].st # "finished"]_vars
    /\ [](\A c \in Threads : callers[c].pc = "waiting" => callers[c].elapsed <= callers[c].timeout)

\* a call with timeout 1 has returned the timeout failure while its implementation runs on
C1_Witness ==
    \E c \in Threads :
        /\ callers[c].pc = "returned"
        /\ callers[c].timeout = 1 /\ callers[c].elapsed = 1
        /\ callers[c].item # 0
        /\ items[callers[c].item].st = "running"
        /\ callers[c].ret = C1_TimedOut(callers[c].name, 1)

(***************************************************************************)
(* C2: run_tool (method and module function) never raises to the caller:   *)
(* for every name, args and state of the executor (fresh, busy, shut down) *)
(* it returns a mapping with exactly the keys success, output and error,   *)
(* and an exception raised by the implementation or by scheduling becomes  *)
(* a failure result carrying the exception's message.                      *)
(***************************************************************************)
C2_Valid(c) == callers[c].name \in ToolNames /\ C5_Expected(callers[c].name, callers[c].args)

C2_BadKeywords(c) ==
    ~(DOMAIN callers[c].args \subseteq Signature[callers[c].name].params)

C3_FromWorker(c) ==
    /\ callers[c].item # 0
    /\ items[callers[c].item].st = "finished"
    /\ callers[c].ret.success = items[callers[c].item].result.success
    /\ callers[c].ret.output = items[callers[c].item].result.output
    /\ callers[c].ret.error = items[callers[c].item].result.error

C3_Kinds(c) ==
    LET me == callers[c] IN
    { k \in {"registry miss", "validation failure", "normal success",
             "implementation failure", "timeout", "executor error"} :
        CASE k = "registry miss" ->
                 /\ me.item = 0 /\ me.name \notin ToolNames
                 /\ me.ret = [success |-> FALSE, output |-> <<>>,
                              error |-> <<"Tool '", me.name, "' not found in registry">>]
          [] k = "validation failure" ->
                 /\ me.item = 0 /\ me.name \in ToolNames
                 /\ me.ret = [success |-> FALSE, output |-> <<>>,
                              error |-> <<"Invalid parameters for tool '", me.name, "'">>]
          [] k = "normal success" -> me.ret.success /\ C3_FromWorker(c)
          [] k = "implementation failure" -> ~me.ret.success /\ C3_FromWorker(c)
          [] k = "timeout" -> me.item # 0 /\ me.ret = C1_TimedOut(me.name, me.timeout)
          [] OTHER ->
                 /\ me.item = 0 /\ ~me.ret.success /\ me.ret.output = <<>>
                 /\ Len(me.ret.error) = 2 /\ me.ret.error[1] = "Tool execution error: " }

\* C3 (as claimed): every returned outcome is of exactly one of the five kinds
C3_FiveKinds ==
    \A c \in Threads :
        callers[c].pc = "returned" =>
            /\ Cardinality(C3_Kinds(c)) = 1
            /\ "executor error" \notin C3_Kinds(c)

\* C3 (as amended): every returned outcome is of exactly one of the six kinds, and no call
\* ends without an outcome
C3_SixKinds ==
    \A c \in Threads :
        /\ callers[c].pc = "returned" => Cardinality(C3_Kinds(c)) = 1
        /\ callers[c].pc # "raised"

\* an implementation failure (the worker's "Tool execution failed") has been returned
C3_Witness ==
    \E c \in Threads :
        /\ callers[c].pc = "returned"
        /\ C3_Kinds(c) = {"implementation failure"}
        /\ callers[c].ret.error = <<"Tool execution failed: ", "TypeError">>

(***************************************************************************)
(* C4: run_tool submits work to the pool only when the name is registered  *)
(* and the args pass validation; otherwise it returns at once with a       *)
(* failure and leaves the pool unchanged: "not found in registry" for an   *)
(* unregistered name (checked first), "Invalid parameters" for bad args.   *)
(***************************************************************************)
C4_Rejects(c, error) ==
    /\ callers'[c].pc = "returned"
    /\ callers'[c].ret = [success |-> FALSE, output |-> <<>>, error |-> error]
    /\ UNCHANGED <<items, pools, inst>>

\* C4: the checks refuse an unregistered name first and invalid args second, leaving the pool
\* as it was, and every work item added to the pool is a registered tool with valid args
C4_SubmitsOnlyValid ==
    /\ [][\A c \in Threads :
             (callers[c].pc = "run" /\ callers'[c] # callers[c]) =>
                 IF callers[c].name \notin ToolNames
                 THEN C4_Rejects(c, <<"Tool '", callers[c].name, "' not found in registry">>)
                 ELSE IF ~C5_Expected(callers[c].name, callers[c].args)
                 THEN C4_Rejects(c, <<"Invalid parameters for tool '", callers[c].name, "'">>)
                 ELSE TRUE]_vars
    /\ [][Len(items') > Len(items) =>
             /\ items'[Len(items')].name \in ToolNames
             /\ C5_Expected(items'[Len(items')].name, items'[Len(items')].args)
             /\ \E c \in Threads :
                    /\ callers[c].pc = "run" /\ callers'[c].pc = "waiting"
                    /\ items'[Len(items')].name = callers[c].name
                    /\ items'[Len(items')].args = callers[c].args]_vars

\* an unregistered name has been refused on a live pool that holds no work item
C4_Witness ==
    \E c \in Threads :
        /\ callers[c].pc = "returned"
        /\ callers[c].name = "nope"
        /\ callers[c].ret.error = <<"Tool '", "nope", "' not found in registry">>
        /\ ~pools[callers[c].ex].shut
        /\ items = <<>>

(***************************************************************************)
(* C6: in a sequential run of get_executor, run_tool and shutdown_executor *)
(* calls, successive get_executor calls with no shutdown_executor between  *)
(* them return the same instance; shutdown_executor without a global       *)
(* instance is a no-op; and the first get_executor or run_tool after a     *)
(* shutdown_executor creates a new instance, distinct from the disposed    *)
(* one, on which tools run normally.                                       *)
(***************************************************************************)
C6_GetReturns(c) ==
    /\ callers[c].pc = "ge_ret" /\ callers[c].op = "get_executor"
    /\ callers'[c].pc = "idle"

C6_RunStarts(c) ==
    /\ callers[c].pc = "ge_ret" /\ callers[c].op = "run_tool"
    /\ callers'[c].pc # "ge_ret"

\* C6: get_executor and run_tool use the live global instance and replace a disposed one by a
\* new live one; shutdown_executor with no instance changes nothing; no scheduling error occurs
C6_SingletonLifecycle ==
    /\ [][\A c \in Threads :
             /\ C6_GetReturns(c) =>
                    /\ callers'[c].ref # 0
                    /\ ~pools[callers'[c].ref].shut
                    \* the instance returned before is returned again unless it was disposed
                    /\ callers[c].ref # 0 =>
                           (callers'[c].ref = callers[c].ref) = ~pools[callers[c].ref].shut
             /\ C6_RunStarts(c) =>
                    /\ callers'[c].pc = "run"
                    /\ callers'[c].ex # 0
                    /\ ~pools[callers'[c].ex].shut
                    /\ callers[c].ref # 0 =>
                           (callers'[c].ex = callers[c].ref) = ~pools[callers[c].ref].shut
             /\ (callers[c].pc = "sd_check" /\ inst = 0 /\ callers'[c] # callers[c]) =>
                    /\ callers'[c].pc = "idle"
                    /\ UNCHANGED <<inst, pools, items>>]_vars
    /\ [](\A c \in Threads :
             callers[c].pc = "returned" => callers[c].ret.error # <<"Tool execution error: ",
                                              "cannot schedule new futures after shutdown">>)

\* after a disposal, get_executor has returned a second, live instance
C6_Witness ==
    \E c \in Threads :
        /\ callers[c].pc = "idle"
        /\ Len(pools) = 2 /\ pools[1].shut /\ ~pools[2].shut
        /\ inst = 2 /\ callers[c].ref = 2

(***************************************************************************)
(* C10: every result run_tool returns for echo, calc, read_file and        *)
(* list_files, the executor's own registry-miss, validation and timeout    *)
(* failures included, satisfies: success implies error is the empty        *)
(* string; failure implies output is the empty string and error is not.    *)
(***************************************************************************)
C10_Empty(text) == \A i \in 1..Len(text) : text[i] = ""

\* C10: a returned success has an empty error; a returned failure has an empty output and a
\* non-empty error
C10_ResultShape ==
    \A c \in Threads :
        (callers[c].pc = "returned"
            /\ callers[c].name \in {"echo", "calc", "read_file", "list_files", "nope"})
        => /\ callers[c].ret.success => C10_Empty(callers[c].ret.error)
           /\ ~callers[c].ret.success =>
                  /\ C10_Empty(callers[c].ret.output)
                  /\ ~C10_Empty(callers[c].ret.error)

\* calc's division by zero has come back through the executor
C10_Witness ==
    \E c \in Threads :
        /\ callers[c].pc = "returned"
        /\ callers[c].name = "calc"
        /\ callers[c].ret = [success |-> FALSE, output |-> <<>>, error |-> <<"Division by zero">>]

(***************************************************************************)
(* SpecPool: one calling thread constructs ToolExecutor instances with a   *)
(* worker count of its own, runs tools on them and shuts them down.        *)
(***************************************************************************)
MaxWorkers == 1

\* ToolExecutor(max_workers=n)
Construct(c) ==
    /\ callers[c].pc = "idle"
    /\ Len(pools) < MaxPools
    /\ \E n \in 1..MaxWorkers : pools' = Append(pools, [shut |-> FALSE, max_workers |-> n])
    /\ Set(c, Idle(Len(pools) + 1))
    /\ UNCHANGED <<inst, items>>
    /\ Frame

NextPool ==
    \/ \E c \in Threads : Construct(c)
    \/ \E c \in Threads : CallMethod(c)
    \/ \E c \in Threads : RunChecks(c)
    \/ \E c \in Threads : ReturnResult(c)
    \/ \E c \in Threads : Timeout(c)
    \/ \E c \in Threads : Done(c)
    \/ Tick
    \/ \E i \in 1..Len(items) : Start(i)
    \/ \E i \in 1..Len(items) : Finish(i)
    \/ \E c \in Threads : CallShutdown(c)
    \/ \E c \in Threads : SdWait(c)

SpecPool == Init /\ [][NextPool]_vars

(***************************************************************************)
(* C18: after run_tool has returned a timeout for a call whose             *)
(* implementation had started, the implementation keeps running and keeps  *)
(* its worker until it completes by itself, and its result is delivered to *)
(* no caller; once as many unfinished implementations as the pool has      *)
(* workers are in flight, a later valid call returns a timeout and its     *)
(* implementation never starts.                                            *)
(***************************************************************************)
C18_Running(p) == { j \in PoolItems(p) : items[j].st = "running" }

\* C18: a running item leaves its worker only by finishing on a worker step; an item starts
\* only on a free worker; a call whose item is still queued returns only the timeout, its
\* item cancelled for good; a call waits only on the item it has just submitted, and a
\* returned result is not replaced
C18_TimedOutWorkerStaysBusy ==
    /\ [][\A i \in 1..Len(items) :
             /\ (items[i].st = "running" /\ items'[i].st # "running") =>
                    (items'[i].st = "finished" /\ UNCHANGED callers)
             /\ (items[i].st = "pending" /\ items'[i].st = "running") =>
                    Cardinality(C18_Running(items[i].pool)) < pools[items[i].pool].max_workers
             /\ items[i].st = "cancelled" => items'[i].st = "cancelled"]_vars
    /\ [][\A c \in Threads :
             /\ (callers[c].pc # "waiting" /\ callers'[c].pc = "waiting") =>
                    (Len(items') = Len(items) + 1 /\ callers'[c].item = Len(items'))
             /\ (callers[c].pc = "returned" /\ callers'[c].pc = "returned") =>
                    callers'[c].ret = callers[c].ret
             /\ (callers[c].pc = "waiting" /\ callers'[c].pc = "returned"
                     /\ items[callers[c].item].st = "pending") =>
                    /\ callers'[c].ret = TimeoutResult(callers[c].name, callers[c].timeout)
                    /\ items'[callers[c].item].st = "cancelled"]_vars

\* with every worker of the pool held by an implementation whose caller was timed out, a
\* later valid call has returned the timeout and its implementation was never started
C18_Witness ==
    \E c \in Threads :
        /\ callers[c].pc = "returned"
        /\ callers[c].item # 0
        /\ callers[c].ret = TimeoutResult(callers[c].name, callers[c].timeout)
        /\ items[callers[c].item].st = "cancelled"
        /\ Cardinality(C18_Running(callers[c].ex)) = pools[callers[c].ex].max_workers
        /\ \A j \in C18_Running(callers[c].ex) : j < callers[c].item /\ items[j].name = "none"

(***************************************************************************)
(* SpecRace: two calling threads use get_executor, run_tool and            *)
(* shutdown_executor of the module at the same time; a step of these       *)
(* functions is one read or one write of the global _executor_instance.    *)
(***************************************************************************)
InitRace == InitExec({"t1", "t2"})

\* run_tool("echo", {"text": ...}, timeout): the racing callers make valid echo calls
RaceRunTool(c) ==
    /\ CallRunTool(c)
    /\ callers'[c].name = "echo"
    /\ validate_tool_parameters("echo", callers'[c].args)
    /\ DOMAIN callers'[c].args = {"text"}

NextRace ==
    \/ \E c \in Threads : CallGetExecutor(c)
    \/ \E c \in Threads : RaceRunTool(c)
    \/ \E c \in Threads : GeCheck(c)
    \/ \E c \in Threads : GeNew(c)
    \/ \E c \in Threads : GeRet(c)
    \/ \E c \in Threads : RunChecks(c)
    \/ \E c \in Threads : ReturnResult(c)
    \/ \E c \in Threads : Timeout(c)
    \/ \E c \in Threads : Done(c)
    \/ Tick
    \/ \E i \in 1..Len(items) : Start(i)
    \/ \E i \in 1..Len(items) : Finish(i)
    \/ \E c \in Threads : CallShutdownExecutor(c)
    \/ \E c \in Threads : SdCheck(c)
    \/ \E c \in Threads : SdCall(c)
    \/ \E c \in Threads : SdWait(c)
    \/ \E c \in Threads : SdClear(c)

SpecRace == InitRace /\ [][NextRace]_vars

(***************************************************************************)
(* C19: under every interleaving of concurrent callers of get_executor and *)
(* the module-level run_tool, at most one global executor instance is      *)
(* created between two disposals: racing first users all obtain the same   *)
(* instance, and no second instance is created and left undisposed.        *)
(***************************************************************************)
C19_Live == { p \in 1..Len(pools) : ~pools[p].shut }

\* C19: at most one instance that was not disposed exists, and it is the global one
C19_OneLiveInstance ==
    /\ Cardinality(C19_Live) <= 1
    /\ \A p \in C19_Live : inst = p

(***************************************************************************)
(* SpecWorker: _execute_tool_safely(tool_function, args) on its own, for   *)
(* the registered tool functions and for callables that raise or return a  *)
(* value that is not a ToolResult, followed by the dict run_tool builds.   *)
(***************************************************************************)
\* values that are not a ToolResult
OtherValues == {NoneV, BoolV, StrV(<<"o", "k">>), [kind |-> "dict", val |-> <<>>]}

\* str(e) of the exception a callable raises
RaisedMessages == {<<>>, <<"boom">>}

SafeCalls ==
    UNION { { [fn |-> name, args |-> args, outcome |-> o] : o \in ToolFunction(name, args) } :
                name \in ToolNames, args \in ParamMaps } \cup
    { [fn |-> "callable", args |-> <<>>, outcome |-> Return(v)] : v \in OtherValues } \cup
    { [fn |-> "callable", args |-> <<>>, outcome |-> Raise(m)] : m \in RaisedMessages }

InitWorker ==
    /\ safeIn \in SafeCalls
    /\ safeOut = Pending
    /\ InitIdleVal /\ InitIdleCalc /\ InitIdleFile /\ InitIdleExec /\ InitIdleAts

\* the worker runs _execute_tool_safely; future.result() hands its ToolResult to run_tool,
\* which returns it as a dict (lines 81-86)
ExecuteSafely ==
    /\ ~safeOut.done
    /\ safeOut' = Returned(AsDict(execute_tool_safely(safeIn.outcome)))
    /\ UNCHANGED <<safeIn, valVars, calcVars, fileVars, execVars, atsVars>>

NextWorker == ExecuteSafely

SpecWorker == InitWorker /\ [][NextWorker]_vars

(***************************************************************************)
(* C20: when the worker completes within the timeout, the outcome is       *)
(* determined by the implementation alone: if it raised, a failure         *)
(* carrying the exception message; if it returned something that is not a  *)
(* ToolResult, a failure with "did not return a ToolResult"; otherwise     *)
(* exactly the success, output and error of the implementation's result.   *)
(***************************************************************************)
C20_IsToolResult(v) == "kind" \notin DOMAIN v

\* C20: the dict returned is the failure with the exception's message, the failure for a
\* value that is not a ToolResult, or the three values of the ToolResult returned
C20_WorkerOutcome ==
    safeOut.done =>
        LET o == safeIn.outcome
            r == safeOut.value
        IN  /\ DOMAIN r = {"success", "output", "error"}
            /\ o.kind = "raise" =>
                   r = [success |-> FALSE, output |-> <<>>,
                        error |-> <<"Tool execution failed: ">> \o o.result.error]
            /\ (o.kind = "return" /\ ~C20_IsToolResult(o.result)) =>
                   r = [success |-> FALSE, output |-> <<>>,
                        error |-> <<"Tool function did not return a ToolResult">>]
            /\ (o.kind = "return" /\ C20_IsToolResult(o.result)) =>
                   /\ r.success = o.result.success
                   /\ r.output = o.result.output
                   /\ r.error = o.result.error

\* a callable that returned None has been turned into the "did not return" failure
C20_Witness ==
    /\ safeOut.done
    /\ safeIn.outcome = Return(NoneV)
    /\ safeOut.value.error = <<"Tool function did not return a ToolResult">>

(***************************************************************************)
(* ats_checker.py: the resume text.                                        *)
(*                                                                         *)
(* A text is a sequence of characters, as the strings above.  The regular  *)
(* expressions and substring tests of the checks are written out over the  *)
(* characters.  A character outside ASCII is one element named by its code *)
(* point.                                                                  *)
(***************************************************************************)
Spaces    == {" ", "\n", "\t"}
Digits    == {"0", "1", "2", "3", "4", "5", "6", "7", "8", "9"}
Uppers    == DOMAIN UpperToLower
Letters   == Uppers \cup { UpperToLower[u] : u \in Uppers }
WordChars == Letters \cup Digits \cup {"_"}

\* the character at index i, "" where the string has none
At(s, i) == IF i \in 1..Len(s) THEN s[i] ELSE ""

\* \b between index i - 1 and index i
Boundary(s, i) == (At(s, i - 1) \in WordChars) # (At(s, i) \in WordChars)

StartsAt(s, i, p) ==
    /\ i >= 1
    /\ i + Len(p) - 1 <= Len(s)
    /\ \A k \in 1..Len(p) : s[i + k - 1] = p[k]

\* every character of s[a..b] is of the class; true of an empty range inside the string
AllIn(s, a, b, class) ==
    /\ a >= 1
    /\ b <= Len(s)
    /\ \A k \in a..b : s[k] \in class

\* str.count(sub) for a non-empty sub: occurrences from the left that do not overlap
RECURSIVE CountFrom(_, _, _)
CountFrom(s, sub, i) ==
    IF i + Len(sub) - 1 > Len(s) THEN 0
    ELSE IF StartsAt(s, i, sub) THEN 1 + CountFrom(s, sub, i + Len(sub))
    ELSE CountFrom(s, sub, i + 1)

\* str.count(sub); the empty string occurs len(s) + 1 times
Count(s, sub) == IF sub = <<>> THEN Len(s) + 1 ELSE CountFrom(s, sub, 1)

\* len(s.split())
WordCount(s) ==
    Cardinality({ i \in 1..Len(s) : s[i] \notin Spaces /\ (i = 1 \/ s[i - 1] \in Spaces) })

\* the whitespace str.strip() removes at either end
LeadingSpaces(s) ==
    IF AllIn(s, 1, Len(s), Spaces) THEN Len(s)
    ELSE (CHOOSE i \in 1..Len(s) : s[i] \notin Spaces /\ AllIn(s, 1, i - 1, Spaces)) - 1
TrailingSpaces(s) ==
    IF AllIn(s, 1, Len(s), Spaces) THEN Len(s)
    ELSE Len(s) - (CHOOSE i \in 1..Len(s) : s[i] \notin Spaces /\ AllIn(s, i + 1, Len(s), Spaces))

\* the pieces of s.split('\n'): [a, b] are the first and last index of a piece
Lines(s) ==
    { <<a, b>> \in (1..(Len(s) + 1)) \X (0..Len(s)) :
          /\ a <= b + 1
          /\ (a = 1 \/ s[a - 1] = "\n")
          /\ (b = Len(s) \/ s[b + 1] = "\n")
          /\ \A k \in a..b : s[k] # "\n" }
\* line.strip() is not empty
NonBlank(s, line) == ~AllIn(s, line[1], line[2], Spaces)

(***************************************************************************)
(* The regular expressions of _check_contact, _check_experience and        *)
(* _check_dates.  Each operator says whether the pattern matches from      *)
(* index i on.                                                             *)
(***************************************************************************)
EmailLocal  == Letters \cup Digits \cup {".", "_", "%", "+", "-"}
EmailDomain == Letters \cup Digits \cup {".", "-"}
EmailTld    == Letters \cup {"|"}

\* \b[A-Za-z0-9._%+-]+@[A-Za-z0-9.-]+\.[A-Z|a-z]{2,}\b
email_pattern(s, a) ==
    /\ Boundary(s, a)
    /\ \E at \in (a + 1)..Len(s) :
           /\ s[at] = "@"
           /\ AllIn(s, a, at - 1, EmailLocal)
           /\ \E d \in (at + 2)..Len(s) :
                  /\ s[d] = "."
                  /\ AllIn(s, at + 1, d - 1, EmailDomain)
                  /\ \E e \in (d + 2)..Len(s) :
                         AllIn(s, d + 1, e, EmailTld) /\ Boundary(s, e + 1)

PhoneSeparators == {"-", "."} \cup Spaces

\* (\+?1[-.\s]?)?(\(?[0-9]{3}\)?[-.\s]?[0-9]{3}[-.\s]?[0-9]{4}): a search succeeds where
\* the second group matches, the first group being optional
phone_pattern(s, i) ==
    \E open \in {0, 1}, close \in {0, 1}, sep1 \in {0, 1}, sep2 \in {0, 1} :
        LET d1 == i + open
            c  == d1 + 3
            d2 == c + close + sep1
            d3 == d2 + 3 + sep2
        IN  /\ open = 1 => At(s, i) = "("
            /\ AllIn(s, d1, d1 + 2, Digits)
            /\ close = 1 => At(s, c) = ")"
            /\ sep1 = 1 => At(s, c + close) \in PhoneSeparators
            /\ AllIn(s, d2, d2 + 2, Digits)
            /\ sep2 = 1 => At(s, d2 + 3) \in PhoneSeparators
            /\ AllIn(s, d3, d3 + 3, Digits)

\* \b[A-Z][a-z]+,\s*[A-Z]{2}\b with re.IGNORECASE
location_city_state(s, a) ==
    /\ Boundary(s, a)
    /\ \E b \in (a + 1)..Len(s) :
           /\ AllIn(s, a, b, Letters)
           /\ At(s, b + 1) = ","
           /\ \E c \in (b + 1)..Len(s) :
                  /\ AllIn(s, b + 2, c, Spaces)
                  /\ AllIn(s, c + 1, c + 2, Letters)
                  /\ Boundary(s, c + 3)

\* \b[A-Z][a-z]+\s+[A-Z][a-z]+\b with re.IGNORECASE
location_city_name(s, a) ==
    /\ Boundary(s, a)
    /\ \E b \in (a + 1)..Len(s) :
           /\ AllIn(s, a, b, Letters)
           /\ \E c \in (b + 1)..Len(s) :
                  /\ AllIn(s, b + 1, c, Spaces)
                  /\ \E d \in (c + 2)..Len(s) :
                         AllIn(s, c + 1, d, Letters) /\ Boundary(s, d + 1)

\* \b(address|location):\s*[^\n]+\b with re.IGNORECASE
location_labelled(s, a) ==
    /\ Boundary(s, a)
    /\ \E label \in { <<"a", "d", "d", "r", "e", "s", "s">>, <<"l", "o", "c", "a", "t", "i", "o", "n">> } :
           /\ StartsAt(Lower(s), a, label)
           /\ At(s, a + Len(label)) = ":"
           /\ \E j \in (a + Len(label))..Len(s) :
                  /\ AllIn(s, a + Len(label) + 1, j, Spaces)
                  /\ \E e \in (j + 1)..Len(s) :
                         /\ \A k \in (j + 1)..e : s[k] # "\n"
                         /\ Boundary(s, e + 1)

\* \b(at|@)\s+[A-Z][a-zA-Z\s&]+ ; _check_experience applies it to the lowered text
\* without re.IGNORECASE
job_at_company(s, a) ==
    /\ Boundary(s, a)
    /\ \E word \in { <<"a", "t">>, <<"@">> } :
           /\ StartsAt(s, a, word)
           /\ \E j \in (a + Len(word))..Len(s) :
                  /\ AllIn(s, a + Len(word), j, Spaces)
                  /\ At(s, j + 1) \in Uppers
                  /\ At(s, j + 2) \in Letters \cup Spaces \cup {"&"}

job_titles ==
    { <<"s", "o", "f", "t", "w", "a", "r", "e">>,
      <<"e", "n", "g", "i", "n", "e", "e", "r">>,
      <<"d", "e", "v", "e", "l", "o", "p", "e", "r">>,
      <<"m", "a", "n", "a", "g", "e", "r">>, <<"a", "n", "a", "l", "y", "s", "t">>,
      <<"s", "p", "e", "c", "i", "a", "l", "i", "s", "t">>,
      <<"c", "o", "o", "r", "d", "i", "n", "a", "t", "o", "r">>,
      <<"d", "i", "r", "e", "c", "t", "o", "r">>, <<"l", "e", "a", "d">>,
      <<"s", "e", "n", "i", "o", "r">>, <<"j", "u", "n", "i", "o", "r">> }

\* \b(software|engineer|...|junior)\b
job_title(s, a) ==
    /\ Boundary(s, a)
    /\ \E word \in job_titles : StartsAt(s, a, word) /\ Boundary(s, a + Len(word))

\* \b(19|20)\d{2}\b
date_year(s, a) ==
    /\ Boundary(s, a)
    /\ (StartsAt(s, a, <<"1", "9">>) \/ StartsAt(s, a, <<"2", "0">>))
    /\ AllIn(s, a + 2, a + 3, Digits)
    /\ Boundary(s, a + 4)

month_prefixes ==
    { <<"j", "a", "n">>, <<"f", "e", "b">>, <<"m", "a", "r">>, <<"a", "p", "r">>,
      <<"m", "a", "y">>, <<"j", "u", "n">>, <<"j", "u", "l">>, <<"a", "u", "g">>,
      <<"s", "e", "p">>, <<"o", "c", "t">>, <<"n", "o", "v">>, <<"d", "e", "c">> }
month_names ==
    { <<"j", "a", "n", "u", "a", "r", "y">>, <<"f", "e", "b", "r", "u", "a", "r", "y">>,
      <<"m", "a", "r", "c", "h">>, <<"a", "p", "r", "i", "l">>, <<"m", "a", "y">>,
      <<"j", "u", "n", "e">>, <<"j", "u", "l", "y">>, <<"a", "u", "g", "u", "s", "t">>,
      <<"s", "e", "p", "t", "e", "m", "b", "e", "r">>,
      <<"o", "c", "t", "o", "b", "e", "r">>, <<"n", "o", "v", "e", "m", "b", "e", "r">>,
      <<"d", "e", "c", "e", "m", "b", "e", "r">> }

\* \s+\d{4}\b after index j
SpacesThenYear(s, j) ==
    \E k \in (j + 1)..Len(s) :
        /\ AllIn(s, j + 1, k, Spaces)
        /\ AllIn(s, k + 1, k + 4, Digits)
        /\ Boundary(s, k + 5)

\* \b(Jan|Feb|...|Dec)[a-z]*\s+\d{4}\b with re.IGNORECASE
date_month_year(s, a) ==
    /\ Boundary(s, a)
    /\ \E month \in month_prefixes :
           /\ StartsAt(Lower(s), a, month)
           /\ \E j \in (a + 2)..Len(s) : AllIn(s, a + 3, j, Letters) /\ SpacesThenYear(s, j)

\* \b\d{1,2}[/-]\d{4}\b
date_numeric(s, a) ==
    /\ Boundary(s, a)
    /\ \E n \in {1, 2} :
           /\ AllIn(s, a, a + n - 1, Digits)
           /\ At(s, a + n) \in {"/", "-"}
           /\ AllIn(s, a + n + 1, a + n + 4, Digits)
           /\ Boundary(s, a + n + 5)

\* \b(January|...|December)\s+\d{4}\b with re.IGNORECASE
date_full_month(s, a) ==
    /\ Boundary(s, a)
    /\ \E month \in month_names :
           StartsAt(Lower(s), a, month) /\ SpacesThenYear(s, a + Len(month) - 1)

\* len(re.findall(pattern, s)) for each date pattern: a match of these patterns begins
\* and ends at a word boundary and holds no other start, so the matches found from the
\* left are all the indices the pattern matches from
CountDates(s) ==
    Cardinality({ a \in 1..Len(s) : date_year(s, a) })
    + Cardinality({ a \in 1..Len(s) : date_month_year(s, a) })
    + Cardinality({ a \in 1..Len(s) : date_numeric(s, a) })
    + Cardinality({ a \in 1..Len(s) : date_full_month(s, a) })

\* pattern_matches of _check_experience, s being text_lower
CountJobPatterns(s) ==
    Cardinality({ a \in 1..Len(s) : job_at_company(s, a) })
    + Cardinality({ a \in 1..Len(s) : job_title(s, a) })

(***************************************************************************)
(* The word lists of the checks                                            *)
(***************************************************************************)
ATS_HEADERS ==
    {
      <<"a", "c", "a", "d", "e", "m", "i", "c", " ", "b", "a", "c", "k", "g", "r", "o", "u", "n", "d">>,
      <<"a", "c", "c", "o", "m", "p", "l", "i", "s", "h", "m", "e", "n", "t", "s">>,
      <<"a", "c", "h", "i", "e", "v", "e", "m", "e", "n", "t", "s">>,
      <<"c", "e", "r", "t", "i", "f", "i", "c", "a", "t", "e", "s">>,
      <<"c", "e", "r", "t", "i", "f", "i", "c", "a", "t", "i", "o", "n", "s">>,
      <<"c", "o", "n", "t", "a", "c", "t">>,
      <<"c", "o", "n", "t", "a", "c", "t", " ", "i", "n", "f", "o", "r", "m", "a", "t", "i", "o", "n">>,
      <<"c", "o", "r", "e", " ", "c", "o", "m", "p", "e", "t", "e", "n", "c", "i", "e", "s">>,
      <<"e", "d", "u", "c", "a", "t", "i", "o", "n">>,
      <<"e", "m", "p", "l", "o", "y", "m", "e", "n", "t">>,
      <<"e", "x", "p", "e", "r", "i", "e", "n", "c", "e">>,
      <<"e", "x", "p", "e", "r", "t", "i", "s", "e">>,
      <<"l", "i", "c", "e", "n", "s", "e", "s">>,
      <<"o", "b", "j", "e", "c", "t", "i", "v", "e">>,
      <<"p", "e", "r", "s", "o", "n", "a", "l", " ", "i", "n", "f", "o", "r", "m", "a", "t", "i", "o", "n">>,
      <<"p", "o", "r", "t", "f", "o", "l", "i", "o">>,
      <<"p", "r", "o", "f", "e", "s", "s", "i", "o", "n", "a", "l", " ", "e", "x", "p", "e", "r", "i", "e", "n", "c", "e">>,
      <<"p", "r", "o", "f", "e", "s", "s", "i", "o", "n", "a", "l", " ", "s", "u", "m", "m", "a", "r", "y">>,
      <<"p", "r", "o", "f", "i", "l", "e">>, <<"p", "r", "o", "j", "e", "c", "t", "s">>,
      <<"q", "u", "a", "l", "i", "f", "i", "c", "a", "t", "i", "o", "n", "s">>,
      <<"s", "k", "i", "l", "l", "s">>, <<"s", "u", "m", "m", "a", "r", "y">>,
      <<"t", "e", "c", "h", "n", "i", "c", "a", "l", " ", "s", "k", "i", "l", "l", "s">>,
      <<"w", "o", "r", "k", " ", "e", "x", "p", "e", "r", "i", "e", "n", "c", "e">> }

SKILL_KEYWORDS ==
    { <<"a", "g", "i", "l", "e">>, <<"a", "n", "a", "l", "y", "t", "i", "c", "a", "l">>,
      <<"a", "n", "g", "u", "l", "a", "r">>, <<"a", "w", "s">>,
      <<"a", "z", "u", "r", "e">>, <<"c", "i", "/", "c", "d">>,
      <<"c", "o", "l", "l", "a", "b", "o", "r", "a", "t", "i", "o", "n">>,
      <<"c", "o", "m", "m", "u", "n", "i", "c", "a", "t", "i", "o", "n">>,
      <<"c", "r", "e", "a", "t", "i", "v", "e">>, <<"d", "e", "v", "o", "p", "s">>,
      <<"d", "j", "a", "n", "g", "o">>, <<"d", "o", "c", "k", "e", "r">>,
      <<"e", "l", "a", "s", "t", "i", "c", "s", "e", "a", "r", "c", "h">>,
      <<"e", "x", "p", "r", "e", "s", "s">>, <<"f", "l", "a", "s", "k">>,
      <<"g", "c", "p">>, <<"g", "i", "t">>, <<"g", "i", "t", "h", "u", "b">>,
      <<"g", "i", "t", "l", "a", "b">>, <<"j", "a", "v", "a">>,
      <<"j", "a", "v", "a", "s", "c", "r", "i", "p", "t">>,
      <<"j", "e", "n", "k", "i", "n", "s">>,
      <<"k", "u", "b", "e", "r", "n", "e", "t", "e", "s">>,
      <<"l", "a", "r", "a", "v", "e", "l">>,
      <<"l", "e", "a", "d", "e", "r", "s", "h", "i", "p">>,
      <<"m", "e", "n", "t", "o", "r", "i", "n", "g">>,
      <<"m", "o", "n", "g", "o", "d", "b">>, <<"m", "y", "s", "q", "l">>,
      <<"n", "o", "d", "e", ".", "j", "s">>,
      <<"p", "o", "s", "t", "g", "r", "e", "s", "q", "l">>,
      <<"p", "r", "e", "s", "e", "n", "t", "a", "t", "i", "o", "n">>,
      <<"p", "r", "o", "b", "l", "e", "m", " ", "s", "o", "l", "v", "i", "n", "g">>,
      <<"p", "r", "o", "j", "e", "c", "t", " ", "m", "a", "n", "a", "g", "e", "m", "e", "n", "t">>,
      <<"p", "y", "t", "h", "o", "n">>, <<"r", "e", "a", "c", "t">>,
      <<"r", "e", "d", "i", "s">>, <<"s", "c", "r", "u", "m">>,
      <<"s", "p", "r", "i", "n", "g">>, <<"s", "q", "l">>,
      <<"t", "e", "a", "m", "w", "o", "r", "k">>,
      <<"t", "i", "m", "e", " ", "m", "a", "n", "a", "g", "e", "m", "e", "n", "t">>,
      <<"t", "r", "a", "i", "n", "i", "n", "g">>,
      <<"t", "y", "p", "e", "s", "c", "r", "i", "p", "t">>, <<"v", "u", "e">> }

\* garbled_indicators: the first of the four is the empty string
garbled_indicators == << <<>>, <<"c", "i", "d", ":">>, <<"\\x00">>, <<"\\ufffd">> >>

table_indicators ==
    << <<"|">>, <<"\\u250c">>, <<"\\u2510">>, <<"\\u2514">>, <<"\\u2518">>, <<"\\u251c">>,
      <<"\\u2524">>, <<"\\u252c">>, <<"\\u2534">> >>

experience_keywords ==
    { <<"e", "x", "p", "e", "r", "i", "e", "n", "c", "e">>, <<"w", "o", "r", "k">>,
      <<"e", "m", "p", "l", "o", "y", "m", "e", "n", "t">>, <<"j", "o", "b">>,
      <<"p", "o", "s", "i", "t", "i", "o", "n">>, <<"r", "o", "l", "e">> }

image_indicators ==
    << <<"i", "m", "a", "g", "e">>, <<"i", "m", "g">>, <<"p", "h", "o", "t", "o">>,
      <<"p", "i", "c", "t", "u", "r", "e">>, <<"l", "o", "g", "o">>,
      <<"g", "r", "a", "p", "h", "i", "c">> >>

special_chars ==
    << <<"\\u00a9">>, <<"\\u00ae">>, <<"\\u2122">>, <<"\\u25e6">>, <<"\\u25aa">>,
      <<"\\u25ab">>, <<"\\u25c6">>, <<"\\u25c7">>, <<"\\u2605">>, <<"\\u2606">> >>

\* sum(text.count(indicator) for indicator in indicators)
RECURSIVE SumCounts(_, _)
SumCounts(s, indicators) ==
    IF indicators = <<>> THEN 0
    ELSE Count(s, Head(indicators)) + SumCounts(s, Tail(indicators))

(***************************************************************************)
(* ats_checker.py: ATSChecker, the overall score.                          *)
(*                                                                         *)
(* A category score is a whole number of points, a weight is in hundredths *)
(* and a weighted total in hundredths of a point; an overall score is in   *)
(* tenths of a point, the one decimal round(total_score, 1) keeps.         *)
(***************************************************************************)
\* the fields of ATSBreakdown, in the order _calculate_overall_score adds them
Categories ==
    << "file_text_extractable", "layout", "headers", "contact", "skills", "experience",
       "dates", "fonts_images", "length" >>

CategorySet == { Categories[i] : i \in 1..Len(Categories) }

WEIGHTS ==
    [ file_text_extractable |-> 15, layout |-> 15, headers |-> 12, contact |-> 10,
      skills |-> 15, experience |-> 15, dates |-> 8, fonts_images |-> 5, length |-> 5 ]

\* total_score after the additions of lines 527-535, from the i-th on
RECURSIVE WeightedSum(_, _)
WeightedSum(breakdown, i) ==
    IF i > Len(Categories) THEN 0
    ELSE breakdown[Categories[i]] * WEIGHTS[Categories[i]] + WeightedSum(breakdown, i + 1)

\* round(total, 1) of a float total.  The binary float nearest to a total that ends in 5
\* hundredths lies above or below it, so the rounding goes to either neighbour.
RoundTenths(total) ==
    IF total % 10 < 5 THEN {total \div 10}
    ELSE IF total % 10 > 5 THEN {total \div 10 + 1}
    ELSE {total \div 10, total \div 10 + 1}

CalculateOverallTruncated(breakdown) == {WeightedSum(breakdown, 1) \div 10}

\* the values _calculate_overall_score(breakdown) can return
calculate_overall_score(breakdown) == RoundTenths(WeightedSum(breakdown, 1))

(***************************************************************************)
(* SpecOverall: _calculate_overall_score on its own, for the breakdowns    *)
(* whose nine scores are drawn from ScoreSamples.                          *)
(***************************************************************************)
MaxSamples == 1

\* 0, 100 and scores between them whose weighted total can end in 5 hundredths
ScoreSamples == {0, 100} \cup { 33 * k : k \in 1..MaxSamples }

InitOverall ==
    /\ atsSelf = [issues |-> <<>>, recommended_actions |-> <<>>]
    /\ atsIn \in [op : {"overall"}, breakdown : [CategorySet -> ScoreSamples]]
    /\ atsOut = Pending
    /\ atsLists = <<>>
    /\ InitIdleVal /\ InitIdleCalc /\ InitIdleFile /\ InitIdleExec /\ InitIdleSafe

Overall ==
    /\ atsIn.op = "overall"
    /\ ~atsOut.done
    /\ \E score \in calculate_overall_score(atsIn.breakdown) : atsOut' = Returned(score)
    /\ UNCHANGED <<atsSelf, atsIn, atsLists, valVars, calcVars, fileVars, execVars, safeVars>>

NextOverall == Overall

SpecOverall == InitOverall /\ [][NextOverall]_vars

(***************************************************************************)
(* C11: the overall score is the sum of score times weight over the nine   *)
(* categories, the weights being .15, .15, .12, .10, .15, .15, .08, .05    *)
(* and .05 and summing to 1.00, rounded to one decimal place; so it lies   *)
(* in [0,100].                                                             *)
(***************************************************************************)
C11_Weights == <<15, 15, 12, 10, 15, 15, 8, 5, 5>>

RECURSIVE C11_Dot(_, _)
C11_Dot(breakdown, i) ==
    IF i = 0 THEN 0 ELSE breakdown[Categories[i]] * C11_Weights[i] + C11_Dot(breakdown, i - 1)

RECURSIVE C11_Total(_)
C11_Total(i) == IF i = 0 THEN 0 ELSE C11_Weights[i] + C11_Total(i - 1)

\* C11: the score returned is a one-decimal value nearest to the weighted sum of the nine
\* scores under the stated weights, which sum to 1.00, and it lies in [0,100]
C11_WeightedRounded ==
    /\ C11_Total(9) = 100
    /\ \A i \in 1..9 : WEIGHTS[Categories[i]] = C11_Weights[i]
    /\ (atsIn.op = "overall" /\ atsOut.done) =>
           LET exact == C11_Dot(atsIn.breakdown, 9)
               score == atsOut.value * 10
           IN  /\ score - exact <= 5
               /\ exact - score <= 5
               /\ atsOut.value \in 0..1000

\* a breakdown with mixed scores whose weighted sum ends in 5 hundredths, rounded upwards
C11_Witness ==
    /\ atsIn.op = "overall"
    /\ atsOut.done
    /\ atsIn.breakdown["layout"] = 33
    /\ atsIn.breakdown["length"] = 100
    /\ C11_Dot(atsIn.breakdown, 9) % 10 = 5
    /\ atsOut.value * 10 > C11_Dot(atsIn.breakdown, 9)

(***************************************************************************)
(* ats_checker.py: what the checks read off raw_text.                      *)
(*                                                                         *)
(* MeasureText computes it from the characters of a text.  A resume text   *)
(* of several hundred words is held as a sequence of parts, each a segment *)
(* of characters and the number of times it is repeated; Text is the       *)
(* string such a document stands for, and Measure combines the             *)
(* measurements of the segments.  The segments of a document of several    *)
(* parts end in a full stop and one whitespace character, which no         *)
(* pattern or keyword of the checks matches across.                        *)
(***************************************************************************)
RECURSIVE SumSeq(_)
SumSeq(q) == IF q = <<>> THEN 0 ELSE Head(q) + SumSeq(Tail(q))

B(flag) == IF flag THEN 1 ELSE 0

\* raw_text.split('\n'): the pieces before the first and after the last newline, the others
FirstLine(s) == CHOOSE line \in Lines(s) : line[1] = 1
LastLine(s)  == CHOOSE line \in Lines(s) : line[2] = Len(s)

MeasureText(s) ==
    LET low == Lower(s)
    IN  [ len            |-> Len(s),
          lead           |-> LeadingSpaces(s),
          trail          |-> TrailingSpaces(s),
          blank          |-> AllIn(s, 1, Len(s), Spaces),
          words          |-> WordCount(s),
          newlines       |-> Count(s, <<"\n">>),
          first_nonblank |-> NonBlank(s, FirstLine(s)),
          last_nonblank  |-> NonBlank(s, LastLine(s)),
          inner_nonblank |-> Cardinality({ line \in Lines(s) \ {FirstLine(s), LastLine(s)} :
                                               NonBlank(s, line) }),
          double_space   |-> Contains(s, <<" ", " ">>),
          garbled        |-> [k \in 1..Len(garbled_indicators) |->
                                  Count(s, garbled_indicators[k])],
          tables         |-> SumCounts(s, table_indicators),
          headers        |-> { header \in ATS_HEADERS : Contains(low, header) },
          skills         |-> { skill \in SKILL_KEYWORDS : Contains(low, skill) },
          emails         |-> \E a \in 1..Len(s) : email_pattern(s, a),
          phones         |-> \E a \in 1..Len(s) : phone_pattern(s, a),
          location       |-> \E a \in 1..Len(s) :
                                 \/ location_city_state(s, a)
                                 \/ location_city_name(s, a)
                                 \/ location_labelled(s, a),
          experience     |-> \E keyword \in experience_keywords : Contains(low, keyword),
          jobs           |-> CountJobPatterns(low),
          dates          |-> CountDates(s),
          images         |-> SumCounts(low, image_indicators),
          specials       |-> SumCounts(s, special_chars) ]

\* the words the segments are made of
FillerWord   == <<"a", "1">>
OddWord      == <<"b">>
HeaderWords  ==
    << <<"s", "u", "m", "m", "a", "r", "y">>, <<"o", "b", "j", "e", "c", "t", "i", "v", "e">>, <<"p", "r", "o", "f", "i", "l", "e">>, <<"e", "d", "u", "c", "a", "t", "i", "o", "n">>, <<"p", "r", "o", "j", "e", "c", "t", "s">> >>
SkillWords   ==
    << <<"p", "y", "t", "h", "o", "n">>, <<"j", "a", "v", "a">>, <<"r", "e", "a", "c", "t">>, <<"s", "q", "l">>, <<"a", "w", "s">>, <<"d", "o", "c", "k", "e", "r">>, <<"g", "i", "t">>,
       <<"a", "g", "i", "l", "e">>, <<"s", "c", "r", "u", "m">>, <<"r", "e", "d", "i", "s">> >>
DateWord     == <<"2", "0", "2", "0">>
JobWord      == <<"e", "n", "g", "i", "n", "e", "e", "r">>
KeywordWord  == <<"w", "o", "r", "k">>
EmailWord    == <<"a", "@", "b", ".", "c", "o">>
PhoneWord    == <<"5", "5", "5", "-", "1", "2", "3", "-", "4", "5", "6", "7">>
LocationWord == <<"X", "y", ",", " ", "C", "A">>
TableWord    == <<"|">>
ImageWord    == <<"l", "o", "g", "o">>
SpecialWord  == <<"\\u2605">>
GarbledWord  == <<"\\ufffd">>
ColumnWord   == <<"a", "1", " ", " ", "b">>

Words ==
    { FillerWord, OddWord, DateWord, JobWord, KeywordWord, EmailWord, PhoneWord,
      LocationWord, TableWord, ImageWord, SpecialWord, GarbledWord, ColumnWord }
    \cup { HeaderWords[i] : i \in 1..Len(HeaderWords) }
    \cup { SkillWords[i] : i \in 1..Len(SkillWords) }

\* a word, a full stop and the whitespace that separates it from the next segment
Seg(word, sep) == word \o <<".", sep>>

\* texts taken as they are
ScenarioA == <<"J", "o", "h", "n", " ", "D", "o", "e", " ", "S", "o", "f", "t", "w", "a", "r", "e", " ", "E", "n", "g", "i", "n", "e", "e", "r">>
Literals  == { ScenarioA, <<" ", "\n", "\t">>, <<"\n", " ", "x", " ", "\n", "\n", " ", "y", "\n">>, <<"L", "o", "c", "a", "t", "i", "o", "n", ":", " ", "R", "o", "m", "e">> }

Segs == { Seg(word, sep) : word \in Words, sep \in {"\n", " "} } \cup Literals

SegTable == [ s \in Segs |-> MeasureText(s) ]

Part(seg, times) == IF times = 0 THEN <<>> ELSE << [seg |-> seg, times |-> times] >>

RECURSIVE Repeat(_, _)
Repeat(s, times) == IF times = 0 THEN <<>> ELSE s \o Repeat(s, times - 1)

\* the string a document stands for
RECURSIVE Text(_)
Text(doc) ==
    IF doc = <<>> THEN <<>> ELSE Repeat(Head(doc).seg, Head(doc).times) \o Text(Tail(doc))

\* the sum over the parts of a count, a part counting times over
Total(doc, count) == SumSeq([i \in 1..Len(doc) |-> count[i] * doc[i].times])

\* the whitespace at the start of the text, from part i on; m[i] measures the i-th segment
RECURSIVE LeadFrom(_, _, _)
LeadFrom(doc, m, i) ==
    IF i > Len(doc) THEN 0
    ELSE IF m[i].blank THEN m[i].len * doc[i].times + LeadFrom(doc, m, i + 1)
    ELSE m[i].lead

\* the whitespace at the end of the text, from part i back
RECURSIVE TrailFrom(_, _, _)
TrailFrom(doc, m, i) ==
    IF i = 0 THEN 0
    ELSE IF m[i].blank THEN m[i].len * doc[i].times + TrailFrom(doc, m, i - 1)
    ELSE m[i].trail

\* the pieces of split('\n') that are not blank, from part i on; open says whether the
\* piece the earlier parts left unfinished is not blank
RECURSIVE NonEmptyLines(_, _, _, _)
NonEmptyLines(doc, m, i, open) ==
    IF i > Len(doc) THEN B(open)
    ELSE IF m[i].newlines = 0 THEN NonEmptyLines(doc, m, i + 1, open \/ ~m[i].blank)
    ELSE B(open \/ m[i].first_nonblank) + m[i].inner_nonblank
         + (doc[i].times - 1)
           * (B(m[i].last_nonblank \/ m[i].first_nonblank) + m[i].inner_nonblank)
         + NonEmptyLines(doc, m, i + 1, m[i].last_nonblank)

\* "  " in raw_text: inside a segment, or where a segment that ends in whitespace meets
\* one that begins with it
DoubleSpace(doc, m) ==
    \/ \E i \in 1..Len(doc) : m[i].double_space
    \/ \E i \in 1..Len(doc) :
           /\ m[i].trail > 0
           /\ \/ doc[i].times > 1 /\ m[i].lead > 0
              \/ i < Len(doc) /\ m[i + 1].lead > 0

\* the measurement of the text of doc from those of its segments
Combine(doc, m, len) ==
    [ len            |-> len,
      stripped       |-> IF \A i \in 1..Len(doc) : m[i].blank THEN 0
                         ELSE len - LeadFrom(doc, m, 1) - TrailFrom(doc, m, Len(doc)),
      words          |-> Total(doc, [i \in 1..Len(doc) |-> m[i].words]),
      newlines       |-> Total(doc, [i \in 1..Len(doc) |-> m[i].newlines]),
      nonempty_lines |-> NonEmptyLines(doc, m, 1, FALSE),
      double_space   |-> DoubleSpace(doc, m),
      garbled        |-> SumSeq([k \in 1..Len(garbled_indicators) |->
                             IF garbled_indicators[k] = <<>> THEN len + 1
                             ELSE Total(doc, [i \in 1..Len(doc) |-> m[i].garbled[k]])]),
      tables         |-> Total(doc, [i \in 1..Len(doc) |-> m[i].tables]),
      headers        |-> UNION { m[i].headers : i \in 1..Len(doc) },
      skills         |-> UNION { m[i].skills : i \in 1..Len(doc) },
      emails         |-> \E i \in 1..Len(doc) : m[i].emails,
      phones         |-> \E i \in 1..Len(doc) : m[i].phones,
      location       |-> \E i \in 1..Len(doc) : m[i].location,
      experience     |-> \E i \in 1..Len(doc) : m[i].experience,
      jobs           |-> Total(doc, [i \in 1..Len(doc) |-> m[i].jobs]),
      dates          |-> Total(doc, [i \in 1..Len(doc) |-> m[i].dates]),
      images         |-> Total(doc, [i \in 1..Len(doc) |-> m[i].images]),
      specials       |-> Total(doc, [i \in 1..Len(doc) |-> m[i].specials]) ]

Measure(doc) ==
    Combine(doc, [i \in 1..Len(doc) |-> SegTable[doc[i].seg]],
            SumSeq([i \in 1..Len(doc) |-> Len(doc[i].seg) * doc[i].times]))

(***************************************************************************)
(* ats_checker.py: the parsed resume.  resume_json is a dict: a record     *)
(* [kind |-> "dict", val |-> f], f mapping each key, a Python value, to    *)
(* its value.  A list is [kind |-> "list", val |-> the sequence of its     *)
(* elements].                                                              *)
(***************************************************************************)
DictV(f) == [kind |-> "dict", val |-> f]
ListV(q) == [kind |-> "list", val |-> q]
TextV(doc) == [kind |-> "text", val |-> doc]

\* key in resume_json, resume_json[key]
HasKey(json, key) == StrV(key) \in DOMAIN json.val
Get(json, key) == json.val[StrV(key)]

\* if resume_json:
Truthy(json) == DOMAIN json.val # {}

\* s.split(), as the set of its words
SplitWords(s) ==
    { SubSeq(s, a, b) : <<a, b>> \in
          { <<a, b>> \in (1..Len(s)) \X (1..Len(s)) :
                /\ a <= b
                /\ \A k \in a..b : s[k] \notin Spaces
                /\ At(s, a - 1) \in Spaces \cup {""}
                /\ At(s, b + 1) \in Spaces \cup {""} } }

(***************************************************************************)
(* ats_checker.py: ATSChecker, the nine checks.  Each operator gives the   *)
(* score the check returns and the issues it appends to self.issues, in    *)
(* order.  text is the measurement of raw_text.                            *)
(***************************************************************************)
\* ATSIssue; found holds the names an f-string message prints after "Found: "
ATSIssue(category, severity, message, found, recommendation) ==
    [ category |-> category, severity |-> severity, message |-> message, found |-> found,
      recommendation |-> recommendation ]

Checked(score, issues) == [score |-> score, issues |-> issues]

Max(a, b) == IF a >= b THEN a ELSE b
MinOfSecond(a, b) == b
Min(a, b) == IF a <= b THEN a ELSE b

OPTIMAL_LENGTH_MAX == 800
OptimalLengthMinHigher == OPTIMAL_LENGTH_MAX \div 2 + 1
OPTIMAL_LENGTH_MIN == 400

check_file_text_extractable(text) ==
    IF text.len = 0 \/ text.stripped < 50
    THEN Checked(0, << ATSIssue("file_text_extractable", "critical",
                           <<"Resume text is too short or unreadable">>, {},
                           "Ensure the resume file is properly formatted and contains sufficient content") >>)
    ELSE IF 100 * text.garbled > 5 * text.len
    THEN Checked(30, << ATSIssue("file_text_extractable", "major",
                            <<"Text contains ", ToString(text.garbled), " encoding issues">>, {},
                            "Re-save the resume in a standard format (PDF or DOCX)") >>)
    ELSE IF text.words < 100
    THEN Checked(60, << ATSIssue("file_text_extractable", "major",
                            <<"Resume has only ", ToString(text.words), " words">>, {},
                            "Add more detailed content to your resume") >>)
    ELSE Checked(100, <<>>)

check_layout(resume_json, text) ==
    LET tables  == text.tables > 10
        columns == text.double_space /\ 10 * text.newlines < text.words
        lines   == text.nonempty_lines < 10
        score   == 100 - (IF tables THEN 30 ELSE 0) - (IF columns THEN 10 ELSE 0)
                       - (IF lines THEN 20 ELSE 0)
    IN  Checked(Max(0, score),
            (IF tables
             THEN << ATSIssue("layout", "major", <<"Resume contains complex table formatting">>, {},
                         "Use simple bullet points and standard formatting instead of tables") >>
             ELSE <<>>)
            \o (IF columns
                THEN << ATSIssue("layout", "minor", <<"Resume may use column formatting">>, {},
                            "Use single-column layout for better ATS compatibility") >>
                ELSE <<>>)
            \o (IF lines
                THEN << ATSIssue("layout", "major", <<"Resume has insufficient structure">>, {},
                            "Add proper sections and line breaks") >>
                ELSE <<>>))

check_headers(resume_json, text) ==
    LET json_headers ==
            IF Truthy(resume_json)
            THEN { Lower(key.val) : key \in { k \in DOMAIN resume_json.val :
                       k.kind = "str" /\ Lower(k.val) \in ATS_HEADERS } }
            ELSE {}
        unique_headers == text.headers \cup json_headers
        n == Cardinality(unique_headers)
        score == IF n >= 5 THEN 100 ELSE IF n >= 3 THEN 80 ELSE IF n >= 2 THEN 60
                 ELSE IF n >= 1 THEN 40 ELSE 0
    IN  Checked(score,
            IF n < 3
            THEN << ATSIssue("headers", "major",
                        <<"Missing important section headers. Found: ">>, unique_headers,
                        "Add clear section headers like: experience, skills, education") >>
            ELSE <<>>)

\* the keys without "address"
ContactKeysWithoutAddress == << <<"e", "m", "a", "i", "l">>, <<"p", "h", "o", "n", "e">>, <<"l", "o", "c", "a", "t", "i", "o", "n">>, <<"c", "o", "n", "t", "a", "c", "t">> >>

contact_keys == << <<"e", "m", "a", "i", "l">>, <<"p", "h", "o", "n", "e">>, <<"a", "d", "d", "r", "e", "s", "s">>, <<"l", "o", "c", "a", "t", "i", "o", "n">>, <<"c", "o", "n", "t", "a", "c", "t">> >>

\* lines 305-313: contact_found and score after the keys from the i-th on
RECURSIVE ContactKeys(_, _, _, _)
ContactKeys(resume_json, i, contact_found, score) ==
    IF i > Len(contact_keys) THEN [contact_found |-> contact_found, score |-> score]
    ELSE LET key == contact_keys[i]
             present == HasKey(resume_json, key)
             seen == \E n \in 1..Len(contact_found) : contact_found[n] = key
         IN  IF present /\ ~seen
             THEN ContactKeys(resume_json, i + 1, Append(contact_found, key), score + 20)
             ELSE ContactKeys(resume_json, i + 1, contact_found, score)

check_contact(resume_json, text) ==
    LET from_text ==
            (IF text.emails THEN << <<"e", "m", "a", "i", "l">> >> ELSE <<>>)
            \o (IF text.phones THEN << <<"p", "h", "o", "n", "e">> >> ELSE <<>>)
            \o (IF text.location THEN << <<"l", "o", "c", "a", "t", "i", "o", "n">> >> ELSE <<>>)
        text_score == (IF text.emails THEN 30 ELSE 0) + (IF text.phones THEN 30 ELSE 0)
                      + (IF text.location THEN 20 ELSE 0)
        all == IF Truthy(resume_json) THEN ContactKeys(resume_json, 1, from_text, text_score)
               ELSE [contact_found |-> from_text, score |-> text_score]
    IN  Checked(Min(100, all.score),
            IF all.contact_found = <<>>
            THEN << ATSIssue("contact", "critical", <<"No contact information found">>, {},
                        "Add email, phone number, and location to your resume") >>
            ELSE IF Len(all.contact_found) < 2
            THEN << ATSIssue("contact", "major",
                        <<"Limited contact information. Found: ">>, {all.contact_found[1]},
                        "Add missing contact details (email, phone, location)") >>
            ELSE <<>>)

check_skills(resume_json, text) ==
    LET json_skills ==
            IF Truthy(resume_json) /\ HasKey(resume_json, <<"s", "k", "i", "l", "l", "s">>)
            THEN LET skills == Get(resume_json, <<"s", "k", "i", "l", "l", "s">>)
                 IN  IF skills.kind = "list"
                     THEN { Lower(skills.val[i].val) :
                                i \in { n \in 1..Len(skills.val) : skills.val[n].kind = "str" } }
                     ELSE IF skills.kind = "str" THEN SplitWords(Lower(skills.val))
                     ELSE {}
            ELSE {}
        n == Cardinality(text.skills \cup json_skills)
        score == IF n >= 10 THEN 100 ELSE IF n >= 7 THEN 80 ELSE IF n >= 5 THEN 60
                 ELSE IF n >= 3 THEN 40 ELSE IF n >= 1 THEN 20 ELSE 0
    IN  Checked(score,
            IF n < 5
            THEN << ATSIssue("skills", "major",
                        <<"Limited skills identified. Found: ", ToString(n), " relevant skills">>,
                        {}, "Add more specific technical and soft skills to your resume") >>
            ELSE <<>>)

exp_keys ==
    << <<"e", "x", "p", "e", "r", "i", "e", "n", "c", "e">>, <<"w", "o", "r", "k", "_", "e", "x", "p", "e", "r", "i", "e", "n", "c", "e">>, <<"e", "m", "p", "l", "o", "y", "m", "e", "n", "t">>, <<"j", "o", "b", "s">> >>

check_experience(resume_json, text) ==
    LET keywords == IF text.experience THEN 30 ELSE 0
        patterns == IF text.jobs >= 5 THEN 40 ELSE IF text.jobs >= 3 THEN 30
                    ELSE IF text.jobs >= 1 THEN 20 ELSE 0
        listed == /\ Truthy(resume_json)
                  /\ \E i \in 1..Len(exp_keys) :
                         /\ HasKey(resume_json, exp_keys[i])
                         /\ Get(resume_json, exp_keys[i]).kind = "list"
                         /\ Len(Get(resume_json, exp_keys[i]).val) > 0
        score == keywords + patterns + (IF listed THEN 30 ELSE 0)
    IN  Checked(Min(100, score),
            IF score < 50
            THEN << ATSIssue("experience", "major",
                        <<"Work experience section is unclear or missing">>, {},
                        "Add a clear work experience section with job titles, companies, and dates") >>
            ELSE <<>>)

check_dates(resume_json, text) ==
    LET total_dates == text.dates
        score == IF total_dates >= 6 THEN 100 ELSE IF total_dates >= 4 THEN 80
                 ELSE IF total_dates >= 2 THEN 60 ELSE IF total_dates >= 1 THEN 40 ELSE 0
    IN  Checked(score,
            IF total_dates < 2
            THEN << ATSIssue("dates", "major",
                        <<"Limited date information found (", ToString(total_dates), " dates)">>,
                        {}, "Add dates for education, work experience, and certifications") >>
            ELSE <<>>)

check_fonts_images(resume_json, text) ==
    LET images   == text.images > 0
        specials == text.specials > 5
        score    == 100 - (IF images THEN 20 ELSE 0) - (IF specials THEN 10 ELSE 0)
    IN  Checked(Max(0, score),
            (IF images
             THEN << ATSIssue("fonts_images", "minor",
                         <<"Found ", ToString(text.images), " potential image references">>, {},
                         "Avoid images, logos, or graphics in your resume for better ATS compatibility") >>
             ELSE <<>>)
            \o (IF specials
                THEN << ATSIssue("fonts_images", "minor",
                            <<"Found ", ToString(text.specials), " special characters">>, {},
                            "Use standard bullet points and characters for better ATS compatibility") >>
                ELSE <<>>))

\* a length check that reports a long resume without an issue
CheckLengthSilentWhenLong(text) ==
    LET word_count == text.words
    IN  IF OPTIMAL_LENGTH_MIN <= word_count /\ word_count <= OPTIMAL_LENGTH_MAX
        THEN Checked(100, <<>>)
        ELSE IF word_count < OPTIMAL_LENGTH_MIN
        THEN Checked(60, << ATSIssue("length", "major",
                                <<"Resume is too short (", ToString(word_count), " words)">>, {},
                                "Aim for 400-800 words for optimal length") >>)
        ELSE Checked(80, <<>>)

check_length(text) ==
    LET word_count == text.words
    IN  IF OPTIMAL_LENGTH_MIN <= word_count /\ word_count <= OPTIMAL_LENGTH_MAX
        THEN Checked(100, <<>>)
        ELSE IF word_count < OPTIMAL_LENGTH_MIN
        THEN Checked(60, << ATSIssue("length", "major",
                                <<"Resume is too short (", ToString(word_count), " words)">>, {},
                                "Aim for 400-800 words for optimal length") >>)
        ELSE Checked(80, << ATSIssue("length", "minor",
                                <<"Resume is long (", ToString(word_count), " words)">>, {},
                                "Consider condensing to 800 words or less") >>)

DetermineConfidenceInclusive(breakdown, text_length) ==
    IF text_length <= 200 THEN "low"
    ELSE IF text_length <= 500 THEN "medium"
    ELSE "high"

determine_confidence(breakdown, text_length) ==
    IF text_length < 200 THEN "low"
    ELSE IF text_length < 500 THEN "medium"
    ELSE "high"

(***************************************************************************)
(* ats_checker.py: ATSChecker.run_ats_checks and the module function       *)
(***************************************************************************)
\* ATSChecker()
NewChecker == [issues |-> <<>>, recommended_actions |-> <<>>]

\* lines 115-118
NoneToEmptyKeepsNone(value, empty) == value
NoneToEmpty(value, empty) == IF value = NoneV THEN empty ELSE value

\* lines 121-122
ResetStateKeepsIssues(self) == self
ResetState(self) == [issues |-> <<>>, recommended_actions |-> <<>>]

\* lines 143-149: the report and the accumulators the call leaves; self.issues is the
\* list the report holds
Report(reset, issues, breakdown, text_length) ==
    { [ self |-> [issues |-> issues, recommended_actions |-> reset.recommended_actions],
        raised |-> FALSE,
        result |-> [ score |-> overall_score,
                     breakdown |-> breakdown,
                     issues |-> issues,
                     recommended_actions |-> reset.recommended_actions,
                     confidence |-> determine_confidence(breakdown, text_length) ] ] :
      overall_score \in calculate_overall_score(breakdown) }

\* lines 125-135: the breakdown of the nine scores, and the issues the checks appended in
\* the order they ran
Checks(reset, text_length, checked) ==
    Report(reset,
           reset.issues \o Concat([i \in 1..Len(Categories) |-> checked[Categories[i]].issues]),
           [category \in CategorySet |-> checked[category].score],
           text_length)

RunChecksOn(reset, resume_json, text) ==
    Checks(reset, text.len,
           [ file_text_extractable |-> check_file_text_extractable(text),
             layout |-> check_layout(resume_json, text),
             headers |-> check_headers(resume_json, text),
             contact |-> check_contact(resume_json, text),
             skills |-> check_skills(resume_json, text),
             experience |-> check_experience(resume_json, text),
             dates |-> check_dates(resume_json, text),
             fonts_images |-> check_fonts_images(resume_json, text),
             length |-> check_length(text) ])

\* bool(None) is false as bool({}) is, while raw_text.count (line 194) needs a str: with
\* a raw_text of None the first check appends its issue and the second raises
RunDefaulted(reset, resume_json, raw_text) ==
    IF raw_text.kind = "none"
    THEN { [ self |-> [reset EXCEPT !.issues =
                           @ \o check_file_text_extractable([len |-> 0]).issues],
             raised |-> TRUE,
             result |-> <<"AttributeError">> ] }
    ELSE RunChecksOn(reset, resume_json, Measure(raw_text.val))

\* self.run_ats_checks(resume_json, raw_text): the outcomes, each the accumulators the
\* call leaves and what it returns or raises
run_ats_checks(self, resume_json, raw_text) ==
    RunDefaulted(ResetState(self), NoneToEmpty(resume_json, DictV(<<>>)),
                 NoneToEmpty(raw_text, TextV(<<>>)))

\* the module's run_ats_checks(resume_json, raw_text): a checker of its own
module_run_ats_checks(resume_json, raw_text) ==
    { [raised |-> outcome.raised, result |-> outcome.result] :
          outcome \in run_ats_checks(NewChecker, resume_json, raw_text) }

(***************************************************************************)
(* SpecAts: run_ats_checks, through one ATSChecker instance that is called *)
(* again and again and through the module function, for the inputs below.  *)
(***************************************************************************)
MaxChanges == 1
MaxCalls == 2

\* a profile says how many segments of each kind a document has; sep is the whitespace
\* that ends the segments other than the filler
Document(p) ==
    Part(Seg(FillerWord, "\n"), p.lines)
    \o Part(Seg(FillerWord, " "), p.inline)
    \o Part(Seg(OddWord, "\n"), p.odd)
    \o Concat([i \in 1..p.headers |-> Part(Seg(HeaderWords[i], p.sep), 1)])
    \o Concat([i \in 1..p.skills |-> Part(Seg(SkillWords[i], p.sep), 1)])
    \o Part(Seg(DateWord, p.sep), p.dates)
    \o Part(Seg(JobWord, p.sep), p.jobs)
    \o Part(Seg(KeywordWord, p.sep), p.keyword)
    \o Part(Seg(EmailWord, p.sep), p.email)
    \o Part(Seg(PhoneWord, p.sep), p.phone)
    \o Part(Seg(LocationWord, p.sep), p.location)
    \o Part(Seg(TableWord, p.sep), p.tables)
    \o Part(Seg(ImageWord, p.sep), p.images)
    \o Part(Seg(SpecialWord, p.sep), p.specials)
    \o Part(Seg(GarbledWord, p.sep), p.garbled)
    \o Part(Seg(ColumnWord, p.sep), p.column)

EmptyProfile ==
    [ lines |-> 0, inline |-> 0, odd |-> 0, headers |-> 0, skills |-> 0, dates |-> 0,
      jobs |-> 0, keyword |-> 0, email |-> 0, phone |-> 0, location |-> 0, tables |-> 0,
      images |-> 0, specials |-> 0, garbled |-> 0, column |-> 0, sep |-> "\n" ]

\* an email, a phone number, 5 headers, 10 skills, 2 job titles, 6 dates and 400 words
RichProfile ==
    [ EmptyProfile EXCEPT !.lines = 375, !.headers = 5, !.skills = 10, !.dates = 6,
                          !.jobs = 2, !.email = 1, !.phone = 1 ]

\* the same on one line, with table characters, an image word, special characters and a
\* double space
CrampedProfile ==
    [ RichProfile EXCEPT !.lines = 0, !.inline = 375, !.tables = 11, !.images = 1,
                         !.specials = 6, !.column = 1, !.sep = " " ]

BaseProfiles == {EmptyProfile, RichProfile, CrampedProfile}

\* the values a field takes, on either side of the thresholds of the checks
Levels ==
    [ lines |-> {0, 9, 10, 12, 13, 49, 50, 124, 125, 374, 375, 775, 776},
      inline |-> {0, 100, 375}, odd |-> {0, 1}, headers |-> 0..5,
      skills |-> {0, 1, 3, 5, 7, 10}, dates |-> {0, 1, 2, 4, 6}, jobs |-> {0, 1, 2, 3, 5},
      keyword |-> {0, 1}, email |-> {0, 1}, phone |-> {0, 1}, location |-> {0, 1},
      tables |-> {0, 10, 11}, images |-> {0, 1}, specials |-> {0, 5, 6},
      garbled |-> {0, 1}, column |-> {0, 1}, sep |-> {"\n", " "} ]

\* the profiles that differ from p in at most n fields
RECURSIVE Variants(_, _)
Variants(p, n) ==
    IF n = 0 THEN {p}
    ELSE LET fewer == Variants(p, n - 1)
         IN  fewer \cup UNION { { [q EXCEPT ![field] = level] :
                                      q \in fewer, level \in Levels[field] } :
                                    field \in DOMAIN Levels }

Documents ==
    { Document(p) : p \in UNION { Variants(base, MaxChanges) : base \in BaseProfiles } }
    \cup { Part(literal, 1) : literal \in Literals }

BaseDocuments ==
    { Document(p) : p \in BaseProfiles } \cup { Part(literal, 1) : literal \in Literals }

RawTexts(documents) == {NoneV} \cup { TextV(doc) : doc \in documents }

Item == DictV(<<>>)

TenSkills ==
    ListV(<< StrV(<<"P", "y", "t", "h", "o", "n">>), StrV(<<"R", "u", "s", "t">>), StrV(<<"G", "o">>), StrV(<<"P", "e", "r", "l">>),
             StrV(<<"R", "u", "b", "y">>), StrV(<<"J", "a", "v", "a">>), StrV(<<"S", "c", "a", "l", "a">>), StrV(<<"L", "u", "a">>),
             StrV(<<"S", "w", "i", "f", "t">>), StrV(<<"p", "y", "t", "h", "o", "n">>), StrV(<<"Z", "i", "g">>) >>)

ResumeJsons ==
    { NoneV,
      DictV(<<>>),
      DictV(StrV(<<"s", "k", "i", "l", "l", "s">>) :> ListV(<< StrV(<<"P", "y", "t", "h", "o", "n">>), IntV, StrV(<<"R", "u", "s", "t">>) >>)),
      DictV(StrV(<<"s", "k", "i", "l", "l", "s">>) :> StrV(<<"G", "o", " ", " ", "R", "u", "s", "t", "\t", "g", "o", " ", "C">>)),
      DictV(StrV(<<"s", "k", "i", "l", "l", "s">>) :> TenSkills),
      DictV(StrV(<<"e", "m", "a", "i", "l">>) :> StrV(<<"a", "@", "b", ".", "c", "o">>) @@ StrV(<<"p", "h", "o", "n", "e">>) :> StrV(<<"1">>)
            @@ StrV(<<"a", "d", "d", "r", "e", "s", "s">>) :> StrV(<<"x">>) @@ StrV(<<"l", "o", "c", "a", "t", "i", "o", "n">>) :> StrV(<<"y">>)
            @@ StrV(<<"c", "o", "n", "t", "a", "c", "t">>) :> Item),
      DictV(StrV(<<"E", "m", "a", "i", "l">>) :> StrV(<<"a", "@", "b", ".", "c", "o">>) @@ StrV(<<"C", "o", "n", "t", "a", "c", "t">>) :> Item
            @@ StrV(<<"E", "d", "u", "c", "a", "t", "i", "o", "n">>) :> ListV(<<>>)
            @@ StrV(<<"E", "x", "p", "e", "r", "i", "e", "n", "c", "e">>) :> ListV(<<Item>>)),
      DictV(StrV(<<"e", "x", "p", "e", "r", "i", "e", "n", "c", "e">>) :> ListV(<<Item>>)),
      DictV(StrV(<<"e", "x", "p", "e", "r", "i", "e", "n", "c", "e">>) :> ListV(<<>>) @@ StrV(<<"j", "o", "b", "s">>) :> ListV(<<Item>>)),
      DictV(StrV(<<"w", "o", "r", "k", "_", "e", "x", "p", "e", "r", "i", "e", "n", "c", "e">>) :> StrV(<<"t", "w", "o", " ", "y", "e", "a", "r", "s">>)),
      DictV(IntV :> StrV(<<"x">>)),
      DictV(StrV(<<"c", "o", "n", "t", "a", "c", "t">>) :> Item @@ StrV(<<"s", "u", "m", "m", "a", "r", "y">>) :> StrV(<<"s">>)
            @@ StrV(<<"e", "x", "p", "e", "r", "i", "e", "n", "c", "e">>) :> ListV(<<Item>>)
            @@ StrV(<<"e", "d", "u", "c", "a", "t", "i", "o", "n">>) :> ListV(<<Item>>) @@ StrV(<<"s", "k", "i", "l", "l", "s">>) :> TenSkills) }

\* every mapping with the base documents, and every document with no mapping
Inputs ==
    (ResumeJsons \X RawTexts(BaseDocuments)) \cup ({NoneV, DictV(<<>>)} \X RawTexts(Documents))

\* the inputs of a later call
LaterInputs ==
    { <<NoneV, NoneV>>,
      <<DictV(<<>>), TextV(Part(ScenarioA, 1))>>,
      <<DictV(<<>>), TextV(Document(RichProfile))>>,
      <<DictV(StrV(<<"e", "x", "p", "e", "r", "i", "e", "n", "c", "e">>) :> ListV(<<Item>>)), TextV(Document(CrampedProfile))>> }

\* a call: its arguments, its number, and how many issues the instance holds as it begins
AtsCall(op, input, call, held) ==
    [ op |-> op, resume_json |-> input[1], raw_text |-> input[2], call |-> call,
      held |-> held ]

InitAts ==
    /\ atsSelf = NewChecker
    /\ atsLists = <<>>
    /\ atsIn \in { AtsCall(op, input, 1, 0) : op \in {"method", "function"}, input \in Inputs }
    /\ atsOut = Pending
    /\ InitIdleVal /\ InitIdleCalc /\ InitIdleFile /\ InitIdleExec /\ InitIdleSafe

\* checker.run_ats_checks(resume_json, raw_text) on the instance
RunMethod ==
    /\ atsIn.op = "method"
    /\ ~atsOut.done
    /\ \E outcome \in run_ats_checks(atsSelf, atsIn.resume_json, atsIn.raw_text) :
           /\ atsSelf' = outcome.self
           /\ atsOut' = Returned([raised |-> outcome.raised, result |-> outcome.result])
    /\ UNCHANGED <<atsIn, atsLists, valVars, calcVars, fileVars, execVars, safeVars>>

\* run_ats_checks(resume_json, raw_text) of the module
RunFunction ==
    /\ atsIn.op = "function"
    /\ ~atsOut.done
    /\ \E outcome \in module_run_ats_checks(atsIn.resume_json, atsIn.raw_text) :
           atsOut' = Returned(outcome)
    /\ UNCHANGED <<atsSelf, atsIn, atsLists, valVars, calcVars, fileVars, execVars, safeVars>>

\* the caller calls again
CallAgain ==
    /\ atsIn.op \in {"method", "function"}
    /\ atsOut.done
    /\ atsIn.call < MaxCalls
    /\ \E op \in {"method", "function"}, input \in LaterInputs :
           atsIn' = AtsCall(op, input, atsIn.call + 1, Len(atsSelf.issues))
    /\ atsOut' = Pending
    /\ UNCHANGED <<atsSelf, atsLists, valVars, calcVars, fileVars, execVars, safeVars>>

NextAts == RunMethod \/ RunFunction \/ CallAgain

SpecAts == InitAts /\ [][NextAts]_vars

(***************************************************************************)
(* C12: for every parsed-resume mapping and every raw text, each of the    *)
(* nine category scores of the returned breakdown lies in [0,100].         *)
(***************************************************************************)
C12_Reported == atsIn.op \in {"method", "function"} /\ atsOut.done /\ ~atsOut.value.raised

\* C12: each of the nine scores of a returned breakdown lies in [0,100]
C12_ScoresInRange ==
    C12_Reported =>
        \A category \in CategorySet : atsOut.value.result.breakdown[category] \in 0..100

\* a mapping with the five contact keys and a text with an email and a phone number,
\* 120 points of contact before the cap, reported as 100
C12_Witness ==
    /\ C12_Reported
    /\ \A i \in 1..Len(contact_keys) : HasKey(atsIn.resume_json, contact_keys[i])
    /\ Measure(atsIn.raw_text.val).emails
    /\ Measure(atsIn.raw_text.val).phones
    /\ atsOut.value.result.breakdown["contact"] = 100

(***************************************************************************)
(* C13: the confidence depends only on the length in characters of         *)
(* raw_text: low below 200, medium from 200 and below 500, high from 500,  *)
(* whatever the mapping and the breakdown scores are.                      *)
(***************************************************************************)
\* len(raw_text), None counting as the empty string
C13_Length(raw_text) ==
    IF raw_text = NoneV THEN 0
    ELSE SumSeq([i \in 1..Len(raw_text.val) |->
                     Len(raw_text.val[i].seg) * raw_text.val[i].times])

\* C13: the confidence of a report is low, medium or high by the length of raw_text alone
C13_ConfidenceByLength ==
    C12_Reported =>
        LET n == C13_Length(atsIn.raw_text)
        IN  atsOut.value.result.confidence =
                IF n < 200 THEN "low" ELSE IF n < 500 THEN "medium" ELSE "high"

\* a text of exactly 200 characters reported with medium confidence
C13_Witness ==
    /\ C12_Reported
    /\ C13_Length(atsIn.raw_text) = 200
    /\ atsOut.value.result.confidence = "medium"

(***************************************************************************)
(* C14: each report returned by a call on one ATSChecker instance equals   *)
(* the report a freshly constructed checker returns for the same inputs:   *)
(* the accumulators are reset at the start of every call, so no issue of   *)
(* an earlier call appears in a later report.                              *)
(***************************************************************************)
\* C14: what a call on the instance returns is what a fresh checker returns for the same
\* inputs, and the instance holds the issues of that report alone
C14_FreshReport ==
    (atsIn.op = "method" /\ atsOut.done) =>
        /\ atsOut.value \in module_run_ats_checks(atsIn.resume_json, atsIn.raw_text)
        /\ ~atsOut.value.raised => atsSelf.issues = atsOut.value.result.issues

\* a second call on an instance that held more issues than the report of this call has
C14_Witness ==
    /\ atsIn.op = "method"
    /\ atsOut.done
    /\ atsIn.call = 2
    /\ ~atsOut.value.raised
    /\ atsIn.held > Len(atsOut.value.result.issues)

(***************************************************************************)
(* C15: run_ats_checks treats a mapping of None as the empty mapping and a *)
(* text of None as the empty string: replacing either argument by None or  *)
(* by its empty default gives the same report.                             *)
(***************************************************************************)
C15_Same(value, empty) == IF value \in {NoneV, empty} THEN {NoneV, empty} ELSE {value}

\* C15: the outcome of a call is the outcome for the same arguments with None in place of
\* an empty argument and the empty argument in place of None
C15_NoneIsEmpty ==
    (atsIn.op \in {"method", "function"} /\ atsOut.done) =>
        \A resume_json \in C15_Same(atsIn.resume_json, DictV(<<>>)),
           raw_text \in C15_Same(atsIn.raw_text, TextV(<<>>)) :
            atsOut.value \in module_run_ats_checks(resume_json, raw_text)

\* the report for (None, None): the one for ({}, ""), with its overall score of 20.0
C15_Witness ==
    /\ C12_Reported
    /\ atsIn.resume_json = NoneV
    /\ atsIn.raw_text = NoneV
    /\ atsOut.value.result.score = 200
    /\ atsOut.value.result.breakdown["file_text_extractable"] = 0

(***************************************************************************)
(* C16: for the empty mapping and the raw text "John Doe Software          *)
(* Engineer" the report has an overall score below 50, confidence low, a   *)
(* contact score of 0 and a critical issue in the contact category saying  *)
(* that no contact information was found.                                  *)
(***************************************************************************)
C16_Input ==
    /\ C12_Reported
    /\ atsIn.resume_json = DictV(<<>>)
    /\ atsIn.raw_text = TextV(Part(ScenarioA, 1))

\* C16: the report for ({}, "John Doe Software Engineer") scores below 50 with low
\* confidence, a contact score of 0 and a critical contact issue
C16_ScenarioA ==
    C16_Input =>
        LET report == atsOut.value.result
        IN  /\ report.score < 500
            /\ report.confidence = "low"
            /\ report.breakdown["contact"] = 0
            /\ \E i \in 1..Len(report.issues) :
                   /\ report.issues[i].category = "contact"
                   /\ report.issues[i].severity = "critical"
                   /\ report.issues[i].message = <<"No contact information found">>

(***************************************************************************)
(* C17: for every input whose raw text contains an email address, a phone  *)
(* number, at least 5 recognized headers, at least 10 skills, at least 2   *)
(* job-title pattern matches, at least 6 dates and between 400 and 800     *)
(* words, the overall score is at least 80 and the confidence is high.     *)
(***************************************************************************)
C17_Input ==
    /\ C12_Reported
    /\ atsIn.raw_text # NoneV
    /\ LET text == Measure(atsIn.raw_text.val)
       IN  /\ text.emails
           /\ text.phones
           /\ Cardinality(text.headers) >= 5
           /\ Cardinality(text.skills) >= 10
           /\ text.jobs >= 2
           /\ text.dates >= 6
           /\ text.words \in 400..800

\* C17 as stated: such a text is reported with a score of at least 80 and high confidence
C17_AtLeast80 ==
    C17_Input =>
        /\ atsOut.value.result.score >= 800
        /\ atsOut.value.result.confidence = "high"

\* C17: such a text is reported with high confidence, with 100 for headers, skills, dates
\* and length and at least 60 for contact, and with an overall score of at least 63
C17_ScenarioB ==
    C17_Input =>
        LET report == atsOut.value.result
        IN  /\ report.confidence = "high"
            /\ report.breakdown["headers"] = 100
            /\ report.breakdown["skills"] = 100
            /\ report.breakdown["dates"] = 100
            /\ report.breakdown["length"] = 100
            /\ report.breakdown["contact"] >= 60
            /\ report.score >= 630

\* such a text on one line, with table characters, an image word, special characters and a
\* double space, reported with 63.0
C17_Witness ==
    /\ C17_Input
    /\ atsOut.value.result.score = 630
    /\ atsOut.value.result.breakdown["file_text_extractable"] = 30
    /\ atsOut.value.result.breakdown["experience"] = 20

(***************************************************************************)
(* C22: the file_text_extractable check returns 0 with a critical issue    *)
(* when the stripped text has fewer than 50 characters, otherwise 30 with  *)
(* a major issue when the garbled indicators occur more than 5% of the     *)
(* text length, otherwise 60 with a major issue below 100 words, otherwise *)
(* 100 with no issue; a text of at least 100 words without control or      *)
(* placeholder characters scores 100 and adds no issue.                    *)
(***************************************************************************)
\* occurrences in the text of "cid:", NUL and the replacement character
C22_Garbled(doc) ==
    SumSeq([i \in 1..Len(doc) |->
                doc[i].times * ( Count(doc[i].seg, <<"c", "i", "d", ":">>)
                                 + Count(doc[i].seg, <<"\\x00">>)
                                 + Count(doc[i].seg, <<"\\ufffd">>) )])

C22_Clean ==
    /\ C12_Reported
    /\ atsIn.raw_text # NoneV
    /\ Measure(atsIn.raw_text.val).words >= 100
    /\ C22_Garbled(atsIn.raw_text.val) = 0

\* C22: a text of at least 100 words with no garbled indicator in it is reported with 100
\* for file_text_extractable and with no issue of that category
C22_CleanTextScores100 ==
    C22_Clean =>
        LET report == atsOut.value.result
        IN  /\ report.breakdown["file_text_extractable"] = 100
            /\ \A i \in 1..Len(report.issues) :
                   report.issues[i].category # "file_text_extractable"

(***************************************************************************)
(* C23: the contact score is min(100, 30 for an email address in the text  *)
(* + 30 for a phone number in the text + 20 for a location in the text     *)
(* + 20 for each of the mapping keys email, phone, address, location,      *)
(* contact that is present and names a category not already found); there  *)
(* is exactly one contact issue when fewer than two contact types were     *)
(* found (critical for none, major for one) and none otherwise.            *)
(***************************************************************************)
C23_Text == IF atsIn.raw_text = NoneV THEN Measure(<<>>) ELSE Measure(atsIn.raw_text.val)

\* the contact types the text shows
C23_InText ==
    (IF C23_Text.emails THEN {<<"e", "m", "a", "i", "l">>} ELSE {})
    \cup (IF C23_Text.phones THEN {<<"p", "h", "o", "n", "e">>} ELSE {})
    \cup (IF C23_Text.location THEN {<<"l", "o", "c", "a", "t", "i", "o", "n">>} ELSE {})

\* the mapping keys that are present and name a type the text does not show
C23_InMapping ==
    { key \in {<<"e", "m", "a", "i", "l">>, <<"p", "h", "o", "n", "e">>, <<"a", "d", "d", "r", "e", "s", "s">>, <<"l", "o", "c", "a", "t", "i", "o", "n">>, <<"c", "o", "n", "t", "a", "c", "t">>} :
        /\ atsIn.resume_json # NoneV
        /\ HasKey(atsIn.resume_json, key)
        /\ key \notin C23_InText }

C23_Points ==
    (IF C23_Text.emails THEN 30 ELSE 0) + (IF C23_Text.phones THEN 30 ELSE 0)
    + (IF C23_Text.location THEN 20 ELSE 0) + 20 * Cardinality(C23_InMapping)

C23_Issues ==
    SelectSeq(atsOut.value.result.issues, LAMBDA issue : issue.category = "contact")

C23_Types == Cardinality(C23_InText \cup C23_InMapping)

C29_Threshold ==
    [file_text_extractable |-> 100, layout |-> 100, headers |-> 80, contact |-> 40, skills |-> 60,
     experience |-> 50, dates |-> 60, fonts_images |-> 100, length |-> 100]

C29_HasIssue(report, category) ==
    \E i \in 1..Len(report.issues) : report.issues[i].category = category

MaxSharedCalls == 1

\* the inputs of the calls: no text, a full resume, a cramped one with a mapping
StepInputs == { input \in LaterInputs : input[2] # TextV(Part(ScenarioA, 1)) }

\* the inputs of two callers at once: a full resume, with no mapping (two issues alone)
\* and with a mapping that lists experience (one issue alone)
SharedInputs ==
    { <<DictV(<<>>), TextV(Document(RichProfile))>>,
      <<DictV(StrV(<<"e", "x", "p", "e", "r", "i", "e", "n", "c", "e">>) :> ListV(<<Item>>)), TextV(Document(RichProfile))>> }

IdleFrame(left) ==
    [pc |-> "idle", alone |-> [issues |-> <<>>], n |-> 0, left |-> left, overlapped |-> FALSE]

\* lines 98-101: __init__ binds two new empty lists
NewInstance == [issues |-> 1, recommended_actions |-> 2]

InitStepsWith(threads, calls) ==
    /\ atsLists = << <<>>, <<>> >>
    /\ atsSelf = NewInstance
    /\ atsIn = [t \in threads |-> IdleFrame(calls)]
    /\ atsOut = [t \in threads |-> <<>>]
    /\ InitIdleVal /\ InitIdleCalc /\ InitIdleFile /\ InitIdleExec /\ InitIdleSafe

InitSteps == InitStepsWith({"t1"}, MaxCalls)

InitShared == InitStepsWith({"t1", "t2"}, MaxSharedCalls)

StepFrame == UNCHANGED <<valVars, calcVars, fileVars, execVars, safeVars>>

Busy(t) == atsIn[t].pc # "idle"

\* lines 103-118: a thread enters run_ats_checks; what its checks compute from the
\* arguments is fixed from here on.  overlapped records that another call on the
\* instance was in progress at some time during this one.
BeginChecks(t, input) ==
    /\ ~Busy(t)
    /\ atsIn[t].left > 0
    /\ \E outcome \in run_ats_checks([issues |-> <<>>, recommended_actions |-> <<>>], input[1], input[2]) :
           atsIn' = [u \in DOMAIN atsIn |->
                        IF u = t
                        THEN [ pc |-> "reset_issues", alone |-> outcome.result, n |-> 0,
                               left |-> atsIn[t].left - 1,
                               overlapped |-> \E v \in DOMAIN atsIn \ {t} : Busy(v) ]
                        ELSE IF Busy(u) THEN [atsIn[u] EXCEPT !.overlapped = TRUE]
                        ELSE atsIn[u]]
    /\ UNCHANGED <<atsSelf, atsOut, atsLists>>
    /\ StepFrame

\* a reset that leaves self.issues bound to the list it had
ResetIssuesKeeping(t) ==
    /\ atsIn[t].pc = "reset_issues"
    /\ atsIn' = [atsIn EXCEPT ![t].pc = "reset_actions"]
    /\ UNCHANGED <<atsSelf, atsOut, atsLists>>
    /\ StepFrame

\* a reset by self.issues.clear(): the same list object, emptied
ResetIssuesClearing(t) ==
    /\ atsIn[t].pc = "reset_issues"
    /\ atsLists' = [atsLists EXCEPT ![atsSelf.issues] = <<>>]
    /\ atsIn' = [atsIn EXCEPT ![t].pc = "reset_actions"]
    /\ UNCHANGED <<atsSelf, atsOut>>
    /\ StepFrame

\* line 121: self.issues = []
ResetIssues(t) ==
    /\ atsIn[t].pc = "reset_issues"
    /\ atsLists' = Append(atsLists, <<>>)
    /\ atsSelf' = [atsSelf EXCEPT !.issues = Len(atsLists) + 1]
    /\ atsIn' = [atsIn EXCEPT ![t].pc = "reset_actions"]
    /\ UNCHANGED atsOut
    /\ StepFrame

\* line 122: self.recommended_actions = []
ResetActions(t) ==
    /\ atsIn[t].pc = "reset_actions"
    /\ atsLists' = Append(atsLists, <<>>)
    /\ atsSelf' = [atsSelf EXCEPT !.recommended_actions = Len(atsLists) + 1]
    /\ atsIn' = [atsIn EXCEPT ![t].pc = "checks"]
    /\ UNCHANGED atsOut
    /\ StepFrame

ListPrepend(list, item) == <<item>> \o list

\* list.append(item)
ListAppend(list, item) == Append(list, item)

\* lines 125-135: the next self.issues.append(ATSIssue(...)) of the nine checks in their
\* order; the list is the one self.issues names as the append runs
AppendIssue(t) ==
    /\ atsIn[t].pc = "checks"
    /\ atsIn[t].n < Len(atsIn[t].alone.issues)
    /\ atsLists' = [atsLists EXCEPT ![atsSelf.issues] = ListAppend(@, atsIn[t].alone.issues[atsIn[t].n + 1])]
    /\ atsIn' = [atsIn EXCEPT ![t].n = @ + 1]
    /\ UNCHANGED <<atsSelf, atsOut>>
    /\ StepFrame

\* lines 137-149: the report takes the scores of this call and the lists the instance
\* names now; alone and overlapped are kept with it for the record
ReturnReport(t) ==
    /\ atsIn[t].pc = "checks"
    /\ atsIn[t].n = Len(atsIn[t].alone.issues)
    /\ atsOut' = [atsOut EXCEPT ![t] =
                      Append(@, [ score |-> atsIn[t].alone.score,
                                  breakdown |-> atsIn[t].alone.breakdown,
                                  issues |-> atsSelf.issues,
                                  recommended_actions |-> atsSelf.recommended_actions,
                                  confidence |-> atsIn[t].alone.confidence,
                                  alone |-> atsIn[t].alone.issues,
                                  overlapped |-> atsIn[t].overlapped ])]
    /\ atsIn' = [atsIn EXCEPT ![t] = IdleFrame(atsIn[t].left)]
    /\ UNCHANGED <<atsSelf, atsLists>>
    /\ StepFrame


NextSteps ==
    \E t \in DOMAIN atsIn :
        \/ \E input \in StepInputs : BeginChecks(t, input)
        \/ ResetIssues(t)
        \/ ResetActions(t)
        \/ AppendIssue(t)
        \/ ReturnReport(t)

SpecSteps == InitSteps /\ [][NextSteps]_vars

NextShared ==
    \E t \in DOMAIN atsIn :
        \/ \E input \in SharedInputs : BeginChecks(t, input)
        \/ ResetIssues(t)
        \/ ResetActions(t)
        \/ AppendIssue(t)
        \/ ReturnReport(t)

SpecShared == InitShared /\ [][NextShared]_vars

\* the issues a held report shows
Shown(report) == atsLists[report.issues]

HeldReports == UNION { { atsOut[t][i] : i \in 1..Len(atsOut[t]) } : t \in DOMAIN atsOut }

(***************************************************************************)
(* C21: two callers that invoke run_ats_checks on the same ATSChecker      *)
(* instance concurrently share its accumulators: there is an interleaving  *)
(* in which a returned report's issues differ from the issues the call     *)
(* produces when it runs alone.                                            *)
(***************************************************************************)
\* C21: a held report shows issues other than those its call produces alone only if
\* another call on the instance was in progress during its call
C21_DiffersOnlyWhenOverlapped ==
    \A report \in HeldReports : Shown(report) # report.alone => report.overlapped

\* both callers hold a report, and one of the reports shows issues that differ from
\* those its call produces alone
C21_Witness ==
    /\ \A t \in {"t1", "t2"} : t \in DOMAIN atsOut /\ Len(atsOut[t]) = 1
    /\ \E report \in HeldReports : Shown(report) # report.alone

(***************************************************************************)
(* C24: the issues of a report are grouped by category in the fixed order  *)
(* file_text_extractable, layout, headers, contact, skills, experience,    *)
(* dates, fonts_images, length; within a call issues are only appended,    *)
(* never removed or reordered.                                             *)
(***************************************************************************)
C24_Position(category) == CHOOSE i \in 1..Len(Categories) : Categories[i] = category

C24_Grouped(issues) ==
    \A i \in 1..Len(issues), j \in 1..Len(issues) :
        i < j => C24_Position(issues[i].category) <= C24_Position(issues[j].category)

C24_Prefix(old, new) == Len(old) <= Len(new) /\ SubSeq(new, 1, Len(old)) = old

\* C24: every step of a call leaves each issue list as it was or with issues added at
\* its end, the list self.issues names is in category order, and so is each report
C24_GroupedAppendOnly ==
    [][ /\ \A l \in 1..Len(atsLists) : C24_Prefix(atsLists[l], atsLists'[l])
        /\ C24_Grouped(atsLists'[atsSelf'.issues])
        /\ \A t \in DOMAIN atsOut' : \A i \in 1..Len(atsOut'[t]) :
               C24_Grouped(atsLists'[atsOut'[t][i].issues]) ]_vars

\* the caller holds a report with issues of at least six categories and a report with
\* several issues of one category followed by issues of a later one
C24_Witness ==
    /\ \E report \in HeldReports :
           Cardinality({ Shown(report)[i].category : i \in 1..Len(Shown(report)) }) >= 6
    /\ \E report \in HeldReports :
           \E i \in 1..Len(Shown(report)) - 2 :
               /\ Shown(report)[i].category = Shown(report)[i + 1].category
               /\ \E j \in (i + 2)..Len(Shown(report)) :
                      Shown(report)[j].category # Shown(report)[i].category

(***************************************************************************)
(* C30: a report returned by a call on an instance is not changed by any   *)
(* later call on the same instance: its issues and recommended_actions     *)
(* keep their contents, because each call binds fresh accumulators instead *)
(* of clearing the previous ones.                                          *)
(***************************************************************************)
\* C30: no step of a later call changes a report the caller holds, in its fields or in
\* the contents of the two lists it refers to
C30_ReportsKept ==
    [][ \A t \in DOMAIN atsOut : \A i \in 1..Len(atsOut[t]) :
            /\ atsOut'[t][i] = atsOut[t][i]
            /\ atsLists'[atsOut[t][i].issues] = atsLists[atsOut[t][i].issues]
            /\ atsLists'[atsOut[t][i].recommended_actions]
                   = atsLists[atsOut[t][i].recommended_actions] ]_vars

\* the caller holds the reports of two calls on the instance: they refer to different
\* lists, and the first still shows its own issues, which are not those of the second
C30_Witness ==
    \E t \in DOMAIN atsOut :
        /\ Len(atsOut[t]) = 2
        /\ atsOut[t][1].issues # atsOut[t][2].issues
        /\ atsOut[t][1].recommended_actions # atsOut[t][2].recommended_actions
        /\ Shown(atsOut[t][1]) = atsOut[t][1].alone
        /\ Shown(atsOut[t][1]) # <<>>
        /\ Shown(atsOut[t][1]) # Shown(atsOut[t][2])

(***************************************************************************)
(* C25: run_tool with a registered name and valid args on a ToolExecutor   *)
(* that has already been shut down (directly, or through a reference to    *)
(* the global executor obtained before a concurrent shutdown_executor)     *)
(* returns a failure result whose error starts with "Tool execution        *)
(* error", and the tool implementation is not invoked.                     *)
(***************************************************************************)
\* C25: when run_tool runs for a valid call on an instance that is shut down, it returns
\* a failure with the error "Tool execution error: ..." and no work item is created, so
\* no worker ever runs the implementation for the call
C25_ShutDownExecutorFails ==
    [][ \A c \in Threads :
            ( /\ callers[c].pc = "run" /\ callers'[c].pc # "run"
              /\ C2_Valid(c)
              /\ pools[callers[c].ex].shut )
            => /\ callers'[c].pc = "returned"
               /\ callers'[c].ret.success = FALSE
               /\ callers'[c].ret.output = <<>>
               /\ Head(callers'[c].ret.error) = "Tool execution error: "
               /\ callers'[c].item = 0
               /\ items' = items ]_vars

\* the caller obtained the global executor, shutdown_executor then disposed of it, and a
\* valid call through the reference has returned the failure, with no work item made
C25_Witness ==
    \E c \in Threads :
        /\ callers[c].pc = "returned" /\ callers[c].op = "method"
        /\ C2_Valid(c)
        /\ inst = 0
        /\ callers[c].ex = callers[c].ref /\ pools[callers[c].ex].shut
        /\ callers[c].item = 0
        /\ Head(callers[c].ret.error) = "Tool execution error: "
        /\ PoolItems(callers[c].ex) = {}

(***************************************************************************)
(* C26: args that hold every required field with a value of the right type *)
(* and also a field the schema does not declare pass validation, are       *)
(* scheduled on a worker, and end as an implementation failure ("Tool      *)
(* execution failed"), not as a validation failure or a success.           *)
(***************************************************************************)
\* a registered tool, its required fields present, its declared fields well typed, and
\* a field the schema does not declare
C26_Undeclared(c) ==
    /\ C2_Valid(c)
    /\ \E f \in DOMAIN callers[c].args : f \notin DOMAIN TOOLS[callers[c].name].properties

\* C26: for such a call on a live instance run_tool submits a work item and waits; when
\* the worker's result comes back it is the failure "Tool execution failed: ...", and no
\* step ends the call with a validation failure or a success
C26_UndeclaredFieldFailsOnWorker ==
    [][ \A c \in Threads :
            /\ ( /\ callers[c].pc = "run" /\ callers'[c].pc # "run"
                 /\ C26_Undeclared(c)
                 /\ ~pools[callers[c].ex].shut )
               => /\ callers'[c].pc = "waiting"
                  /\ Len(items') = Len(items) + 1
                  /\ callers'[c].item = Len(items')
                  /\ items'[Len(items')].st = "pending"
                  /\ items'[Len(items')].args = callers[c].args
            /\ ( /\ callers[c].pc = "waiting" /\ callers'[c].pc = "returned"
                 /\ C26_Undeclared(c)
                 /\ items[callers[c].item].st = "finished" )
               => /\ callers'[c].ret.success = FALSE
                  /\ Head(callers'[c].ret.error) = "Tool execution failed: "
            /\ ( /\ callers[c].pc # "returned" /\ callers'[c].pc = "returned"
                 /\ C26_Undeclared(c) )
               => /\ callers'[c].ret.success = FALSE
                  /\ callers'[c].ret # InvalidResult(callers[c].name) ]_vars

\* an echo call with its text and an undeclared field ran on a worker and has returned
\* the implementation failure
C26_Witness ==
    \E c \in Threads :
        /\ callers[c].pc = "returned"
        /\ C26_Undeclared(c)
        /\ callers[c].item # 0 /\ items[callers[c].item].st = "finished"
        /\ callers[c].ret = Failure(<<"Tool execution failed: ", "TypeError">>)

(***************************************************************************)
(* C27: if a call's timeout expires while its work item is still queued    *)
(* because all workers are busy, the item is cancelled and its             *)
(* implementation is never invoked, even after workers become free.        *)
(***************************************************************************)
\* C27: the timeout of a call whose item is still queued cancels the item, and a
\* cancelled item is never taken by a worker: it stays cancelled in every later step
C27_QueuedItemCancelled ==
    [][ /\ \A c \in Threads :
               ( /\ callers[c].pc = "waiting" /\ callers'[c].pc = "returned"
                 /\ items[callers[c].item].st = "pending" )
               => /\ callers'[c].ret = TimeoutResult(callers[c].name, callers[c].timeout)
                  /\ items'[callers[c].item].st = "cancelled"
        /\ \A i \in 1..Len(items) :
               /\ items[i].st = "cancelled" => items'[i].st = "cancelled"
               /\ items'[i].st = "running" => items[i].st \in {"pending", "running"}
               /\ items'[i].st = "finished" => items[i].st \in {"running", "finished"} ]_vars

\* the only worker of the pool is still running an earlier item, and the caller has got
\* the timeout failure for a later item, which was cancelled in the queue
C27_Witness ==
    \E c \in Threads :
        /\ callers[c].pc = "returned"
        /\ callers[c].ret = TimeoutResult(callers[c].name, callers[c].timeout)
        /\ callers[c].item # 0
        /\ items[callers[c].item].st = "cancelled"
        /\ pools[callers[c].ex].max_workers = 1
        /\ \E j \in C18_Running(callers[c].ex) : j < callers[c].item

(***************************************************************************)
(* C28: shutdown_executor (and ToolExecutor.shutdown with the default      *)
(* wait) returns only after every in-flight tool implementation has        *)
(* completed, including those whose callers already received a timeout     *)
(* result; if some in-flight implementation never completes, the disposal  *)
(* never returns.                                                          *)
(***************************************************************************)
C28_InFlight(p) == { i \in PoolItems(p) : items[i].st \in {"pending", "running"} }

\* C28: the step by which a disposal stops waiting is taken only in a state where no work
\* item of the pool is queued or running; as long as one is, the caller stays where it is
C28_DisposalWaits ==
    [][ \A c \in Threads :
            callers[c].pc = "sd_wait" =>
                /\ callers'[c].pc # "sd_wait" => C28_InFlight(callers[c].ex) = {}
                /\ C28_InFlight(callers[c].ex) # {} =>
                       /\ callers'[c].pc = "sd_wait"
                       /\ inst' = inst ]_vars

\* shutdown_executor waits on the global executor while a worker still runs an
\* implementation whose caller has already got its timeout result and dropped the future
C28_Witness ==
    \E c \in Threads :
        /\ callers[c].pc = "sd_wait" /\ callers[c].op = "shutdown_executor"
        /\ callers[c].ex = inst
        /\ \E i \in PoolItems(callers[c].ex) : items[i].st = "running" /\ items[i].name = "none"

====
